---- MODULE Spec2Model ----
(***************************************************************************)
(* ReportRemix: the AI-edit reconciliation service (geminiService), its    *)
(* rate limiter and image shielding codec, and the chat surface and the    *)
(* application state that consume its results.                             *)
(*                                                                         *)
(* An HTML string is modelled as the sequence of its top-level nodes.  A   *)
(* node is a record                                                        *)
(*   tag : "p" (a block element with a closing tag), "hr" (a void element, *)
(*         whose outerHTML holds no "</"), "text" (a top-level text node,  *)
(*         not an element child), "fence" (a markdown code fence marker),  *)
(*         "frameset" (markup that makes the HTML parser drop the wrapper  *)
(*         div, so querySelector('div') finds nothing)                     *)
(*   id  : a label of the node's content                                   *)
(*   len : the characters of its markup in the string, the value v apart   *)
(*   cut : the markup stops before its closing tag (a truncated tail)      *)
(*   k   : "none", "src" (the node holds <img src="v">) or "text" (the     *)
(*         text of the node holds v)                                       *)
(*   v   : a string as a sequence of atoms; an atom is a run of characters *)
(*         that the codec's pattern treats as a unit                       *)
(***************************************************************************)
EXTENDS Integers, Sequences, FiniteSets, TLC

VARIABLES
    now,              \* Date.now()
    lastRequestTime,  \* geminiService: let lastRequestTime
    calls,            \* the service calls in progress, per caller
    dispatches,       \* the requests sent to the generation service, in order
    htmlContent,      \* App: docState.htmlContent
    history,          \* App: historyRef.current
    historyIndex,     \* App: historyIndexRef.current
    isUndoRedo,       \* App: isUndoRedoRef.current
    messages,         \* ChatInterface: messages
    isTyping,         \* ChatInterface: isTyping
    zoom,             \* DocumentEditor: zoom
    pageRefs,         \* DocumentEditor: pageRefs.current, each page's innerHTML
    debounceRef,      \* DocumentEditor: debounceRef.current (0: null)
    timers,           \* the persist timeouts set and neither fired nor cleared
    inputs,           \* the handleInput calls made, in order
    saves,            \* the debounced onContentChange calls made, in order
    textMap,          \* pdfService: let textMap, page index -> items
    loads,            \* the loadPdfDocument calls made, in start order
    trial             \* one application of a pure function: inputs and result

vars == <<now, lastRequestTime, calls, dispatches, htmlContent, history,
          historyIndex, isUndoRedo, messages, isTyping, zoom, pageRefs,
          debounceRef, timers, inputs, saves, textMap, loads, trial>>

serviceVars == <<now, lastRequestTime, calls, dispatches>>
appVars == <<htmlContent, history, historyIndex, isUndoRedo>>
chatVars == <<messages, isTyping>>
persistVars == <<pageRefs, debounceRef, timers, inputs, saves>>
editorVars == <<zoom, pageRefs, debounceRef, timers, inputs, saves>>
loaderVars == <<textMap, loads>>

(***************************************************************************)
(* Bounds of the model.                                                    *)
(***************************************************************************)
MaxOrig == 3        \* top-level nodes of an original document
MaxAi == 2          \* top-level nodes of a generated text
MaxDispatches == 3  \* requests sent to the generation service in one run
MaxCodec == 3       \* top-level nodes of a document given to the codec
MaxTicks == 5       \* quarter intervals the clock runs after load
MaxPageNodes == 4   \* top-level nodes of a document given to paginateHtml
MaxItems == 3       \* text items of a PDF page
MaxSearch == 3      \* pieces a search text is put together from
MaxInputs == 3      \* handleInput calls in one run
MaxEditorTicks == 6 \* half debounce delays the clock runs in the editor
MaxVaried == 2      \* history length up to which a third content is written
MaxLoads == 3       \* loadPdfDocument calls made in one run
MaxPdfPages == 2    \* pages of a PDF file

(***************************************************************************)
(* Program constants.                                                      *)
(***************************************************************************)
MIN_REQUEST_INTERVAL == 4000
MAX_HISTORY == 50

(***************************************************************************)
(* Strings.                                                                *)
(***************************************************************************)
PlaceholderKey(counter) == "__IMG_PLACEHOLDER_" \o ToString(counter) \o "__"

DataHeader == "data:image/png;base64,"
ExternalUrl == "http://host/a.png"
BlobA == "AAAA"     \* stands for a long base64 payload
BlobB == "BBBB"     \* stands for another, shorter base64 payload

AtomLen(a) ==
    CASE a = DataHeader -> 22
      [] a = ExternalUrl -> 17
      [] a = BlobA -> 1500
      [] a = BlobB -> 700
      [] OTHER -> 21          \* a placeholder key

RECURSIVE ValueLen(_)
ValueLen(v) == IF v = <<>> THEN 0 ELSE AtomLen(Head(v)) + ValueLen(Tail(v))

Node(tag, id, len, cut, k, v) ==
    [tag |-> tag, id |-> id, len |-> len, cut |-> cut, k |-> k, v |-> v]

NodeLen(n) == n.len + ValueLen(n.v)

RECURSIVE HtmlLength(_)
HtmlLength(html) ==
    IF html = <<>> THEN 0 ELSE NodeLen(Head(html)) + HtmlLength(Tail(html))

(***************************************************************************)
(* Image shielding codec.                                                  *)
(***************************************************************************)
\* /src="(data:image\/[^;]+;base64,[^"]+)"/ : a src attribute whose value is
\* the data header followed by a payload of at least one character.
MatchesEmbeddedSrc(n) ==
    /\ n.k = "src"
    /\ Len(n.v) >= 2
    /\ n.v[1] = DataHeader

RECURSIVE ProtectScan(_, _, _, _)
ProtectScan(html, i, counter, acc) ==
    IF i > Len(html) THEN acc
    ELSE IF MatchesEmbeddedSrc(html[i])
         THEN LET key == PlaceholderKey(counter)
              IN ProtectScan(html, i + 1, counter + 1,
                     [protectedHtml |->
                          Append(acc.protectedHtml, [html[i] EXCEPT !.v = <<key>>]),
                      imageMap |->
                          Append(acc.imageMap, [key |-> key, srcData |-> html[i].v])])
         ELSE ProtectScan(html, i + 1, counter,
                     [acc EXCEPT !.protectedHtml = Append(@, html[i])])

protectImages(html) ==
    ProtectScan(html, 1, 0, [protectedHtml |-> <<>>, imageMap |-> <<>>])

\* v.split(key).join(srcData) on one string
RECURSIVE SplitJoin(_, _, _)
SplitJoin(v, key, srcData) ==
    IF v = <<>> THEN <<>>
    ELSE (IF Head(v) = key THEN srcData ELSE <<Head(v)>>)
             \o SplitJoin(Tail(v), key, srcData)

\* the key occurs in the string v, in the HTML
KeyInValue(key, v) == \E j \in 1..Len(v) : v[j] = key
KeyInHtml(key, html) == \E i \in 1..Len(html) : KeyInValue(key, html[i].v)

\* String.replace(key, srcData): the first occurrence only
ReplaceKeyFirstOnly(html, key, srcData) ==
    LET holders == { i \in 1..Len(html) : KeyInValue(key, html[i].v) }
    IN IF holders = {} THEN html
       ELSE LET first == CHOOSE i \in holders : \A h \in holders : i <= h
            IN [html EXCEPT ![first].v = SplitJoin(@, key, srcData)]

ReplaceKey(html, key, srcData) ==
    [i \in 1..Len(html) |-> [html[i] EXCEPT !.v = SplitJoin(@, key, srcData)]]

RECURSIVE RestoreEach(_, _, _)
RestoreEach(html, imageMap, i) ==
    IF i > Len(imageMap) THEN html
    ELSE RestoreEach(ReplaceKey(html, imageMap[i].key, imageMap[i].srcData),
                     imageMap, i + 1)

\* the restoration left out
restoreImagesSkipped(html, imageMap) == html

restoreImages(html, imageMap) == RestoreEach(html, imageMap, 1)

(***************************************************************************)
(* DOMParser: the wrapper div's child nodes, as the parser builds them.    *)
(***************************************************************************)
IsFrameset(n) == n.tag = "frameset"
IsElement(n) == n.tag \in {"p", "hr"}
IsFence(n) == n.tag = "fence"
NotFence(n) == ~IsFence(n)

\* querySelector('div') finds the wrapper unless the markup replaced the body
ContainerFound(html) == \A i \in 1..Len(html) : ~IsFrameset(html[i])

\* the parser closes an element the markup left open
ParsedNode(n) ==
    IF n.tag = "p" /\ n.cut THEN [n EXCEPT !.cut = FALSE, !.len = @ + 4] ELSE n

ParseContainer(html) == [i \in 1..Len(html) |-> ParsedNode(html[i])]

Children(container) == SelectSeq(container, IsElement)

OuterHtmlLength(n) == NodeLen(n)
IncludesClosingTag(n) == n.tag = "p"

RECURSIVE LastElementIndex(_, _)
LastElementIndex(container, i) ==
    IF i = 0 THEN 0
    ELSE IF IsElement(container[i]) THEN i
         ELSE LastElementIndex(container, i - 1)

RemoveAt(s, i) == SubSeq(s, 1, i - 1) \o SubSeq(s, i + 1, Len(s))

(***************************************************************************)
(* getDocumentEditSuggestions, from the response of fetch to its result.   *)
(* A response is [arrived, status, statusText, hasText, raw]: arrived is   *)
(* FALSE when fetch rejects, hasText says whether                          *)
(* candidates[0].content.parts[0].text is present, raw is that text.       *)
(***************************************************************************)
ResponseOk(resp) == resp.status >= 200 /\ resp.status <= 299

RECURSIVE TrimLeft(_)
TrimLeft(s) ==
    IF s # <<>> /\ Head(s).tag = "ws" THEN TrimLeft(Tail(s)) ELSE s

RECURSIVE TrimRight(_)
TrimRight(s) ==
    IF s # <<>> /\ s[Len(s)].tag = "ws"
    THEN TrimRight(SubSeq(s, 1, Len(s) - 1)) ELSE s

\* text.replace(/```html/g, '').replace(/```/g, '').trim()
StripFences(raw) == TrimRight(TrimLeft(SelectSeq(raw, NotFence)))

GeneratedText(resp) == StripFences(IF resp.hasText THEN resp.raw ELSE <<>>)

\* newLength / originalLength < 0.8, and aiElements < originalElements * 0.8
Below80Percent(a, b) == 10 * a < 8 * b

\* the size floor forgotten
SuspectsTruncationNoFloor(originalLength, newLength) ==
    Below80Percent(newLength, originalLength)

\* originalLength > 1000 and lengthRatio < 0.8
SuspectsTruncation(originalLength, newLength) ==
    /\ originalLength > 1000
    /\ Below80Percent(newLength, originalLength)

\* the closing-tag test left out
LooksIncompleteByLengthOnly(children) ==
    (IF children = <<>> THEN 0 ELSE OuterHtmlLength(children[Len(children)])) < 50

\* lastAiHtml.length < 50 || !lastAiHtml.includes('</')
LooksIncomplete(children) ==
    LET lastAiHtmlLength ==
            IF children = <<>> THEN 0 ELSE OuterHtmlLength(children[Len(children)])
        hasClosing ==
            children # <<>> /\ IncludesClosingTag(children[Len(children)])
    IN lastAiHtmlLength < 50 \/ ~hasClosing

\* lastAiElement?.remove()
RemoveLastAiElement(aiContainer) ==
    LET at == LastElementIndex(aiContainer, Len(aiContainer))
    IN IF at = 0 THEN aiContainer ELSE RemoveAt(aiContainer, at)

\* the loop started one element late
StartIndexOffByOne(aiContainer) == Len(Children(aiContainer)) + 1

\* const startIndex = aiContainer.children.length
StartIndex(aiContainer) == Len(Children(aiContainer))

\* the element-append merge: aiContainer.innerHTML after the loop
MergeAppend(text, originalDocument) ==
    LET aiContainer == ParseContainer(text)
        originalChildren == Children(ParseContainer(originalDocument))
        originalElements == Len(originalChildren)
        kept == IF LooksIncomplete(Children(aiContainer))
                THEN RemoveLastAiElement(aiContainer)
                ELSE aiContainer
        startIndex == StartIndex(kept)
    IN kept \o SubSeq(originalChildren, startIndex + 1, originalElements)

Thrown(error, status, statusText) ==
    [type |-> "throw", content |-> <<>>, error |-> error,
     status |-> status, statusText |-> statusText]

Returned(type, content, note) ==
    [type |-> type, content |-> content, error |-> note,
     status |-> 0, statusText |-> ""]

\* the status 403 branch left out
ErrorForWithout403(resp) ==
    IF ~resp.arrived THEN Thrown("Transport", 0, "")
    ELSE IF resp.status = 429 THEN Thrown("RateLimit", 0, "")
    ELSE Thrown("ApiError", resp.status, resp.statusText)

ErrorFor(resp) ==
    IF ~resp.arrived THEN Thrown("Transport", 0, "")
    ELSE IF resp.status = 429 THEN Thrown("RateLimit", 0, "")
    ELSE IF resp.status = 403 THEN Thrown("InvalidKey", 0, "")
    ELSE Thrown("ApiError", resp.status, resp.statusText)

\* which return or throw statement a call reaches
EditPath(currentHtml, resp) ==
    LET shielded == protectImages(currentHtml)
        text == GeneratedText(resp)
        originalLength == HtmlLength(shielded.protectedHtml)
        newLength == HtmlLength(text)
        aiElements == Len(Children(ParseContainer(text)))
        originalElements == Len(Children(ParseContainer(currentHtml)))
    IN IF ~resp.arrived \/ ~ResponseOk(resp) THEN "throw"
       ELSE IF SuspectsTruncation(originalLength, newLength)
            THEN IF ~ContainerFound(text) \/ ~ContainerFound(currentHtml)
                 THEN "message"
                 ELSE IF Below80Percent(aiElements, originalElements)
                      THEN "merge"
                      ELSE "sufficient"
            ELSE "asis"

getDocumentEditSuggestions(currentHtml, resp) ==
    LET originalDocument == currentHtml
        shielded == protectImages(currentHtml)
        text == GeneratedText(resp)
        path == EditPath(currentHtml, resp)
    IN CASE path = "throw" -> ErrorFor(resp)
         [] path = "message" -> Returned("message", <<>>, "ParseFailed")
         [] path = "merge" ->
                Returned("update",
                         restoreImages(MergeAppend(text, originalDocument),
                                       shielded.imageMap), "")
         [] OTHER ->
                Returned("update", restoreImages(text, shielded.imageMap), "")

(***************************************************************************)
(* The inputs the checks draw from.                                        *)
(***************************************************************************)
\* the top-level nodes a loaded or edited document is built from
OrigNodes(i) ==
    { Node("p", i, 1100, FALSE, "none", <<>>),
      Node("p", i, 40, FALSE, "none", <<>>),
      Node("p", i, 60, FALSE, "src", <<DataHeader, BlobA>>) }

SeqsOver(NodesAt(_), n) ==
    { s \in [1..n -> UNION { NodesAt(i) : i \in 1..n }] :
          \A i \in 1..n : s[i] \in NodesAt(i) }

OrigDocs == UNION { SeqsOver(OrigNodes, n) : n \in 1..MaxOrig }

\* what a generator may write at position i of its text, shown the shielded
\* document: the node it was shown there, or markup of its own
AiNodes(shown, i) ==
    (IF i <= Len(shown) THEN {shown[i]} ELSE {})
    \cup { Node("p", 0, 300, FALSE, "none", <<>>),
           Node("p", 0, 30, FALSE, "none", <<>>),
           Node("p", 0, 200, TRUE, "none", <<>>),
           Node("hr", 0, 4, FALSE, "none", <<>>),
           Node("hr", 0, 80, FALSE, "none", <<>>),
           Node("text", 0, 25, FALSE, "none", <<>>),
           Node("frameset", 0, 10, FALSE, "none", <<>>),
           Node("p", 0, 60, FALSE, "src", <<PlaceholderKey(0)>>) }

AiTexts(shown) ==
    UNION { { s \in [1..n -> UNION { AiNodes(shown, i) : i \in 1..n }] :
                  \A i \in 1..n : s[i] \in AiNodes(shown, i) } : n \in 0..MaxAi }

Fence == Node("fence", 0, 7, FALSE, "none", <<>>)
Whitespace == Node("ws", 0, 1, FALSE, "none", <<>>)
Fenced(text) == <<Fence, Whitespace>> \o text \o <<Whitespace, Fence>>

RawTexts(shown) ==
    AiTexts(shown) \cup { Fenced(t) : t \in { u \in AiTexts(shown) : Len(u) <= 1 } }

Response(arrived, status, statusText, hasText, raw) ==
    [arrived |-> arrived, status |-> status, statusText |-> statusText,
     hasText |-> hasText, raw |-> raw]

FailedResponses ==
    { Response(FALSE, 0, "", FALSE, <<>>),
      Response(TRUE, 429, "Too Many Requests", FALSE, <<>>),
      Response(TRUE, 403, "Forbidden", FALSE, <<>>),
      Response(TRUE, 401, "Unauthorized", FALSE, <<>>),
      Response(TRUE, 500, "Internal Server Error", FALSE, <<>>) }

Responses(currentHtml) ==
    FailedResponses
    \cup { Response(TRUE, 200, "OK", FALSE, <<>>) }
    \cup { Response(TRUE, 200, "OK", TRUE, raw) :
               raw \in RawTexts(protectImages(currentHtml).protectedHtml) }

(***************************************************************************)
(* The state before anything is loaded or called.                          *)
(***************************************************************************)
Callers == {"c1", "c2"}

\* Date.now() when the module is loaded: far more than the interval after 0
LoadTime == 3 * MIN_REQUEST_INTERVAL

\* a call: where it stands (idle, wait: in waitForRateLimit's timeout, fetch:
\* request sent, settled: returned or thrown), its argument, Date.now() and the
\* number of requests already sent when it was made, the lastRequestTime it
\* read, when its timeout is due, and its result
IdleCall == [pc |-> "idle", kind |-> "none", currentHtml |-> <<>>,
             entered |-> 0, after |-> 0, seen |-> 0, due |-> 0, result |-> <<>>]

ServiceStart ==
    /\ now = LoadTime
    /\ lastRequestTime = 0
    /\ calls = [p \in Callers |-> IdleCall]
    /\ dispatches = <<>>

AppStart ==
    /\ htmlContent = <<>>
    /\ history = <<>>
    /\ historyIndex = -1
    /\ isUndoRedo = FALSE

ChatStart ==
    /\ messages = <<"welcome">>
    /\ isTyping = FALSE

\* const [zoom, setZoom] = useState(100)
EditorStart ==
    /\ zoom = 100
    /\ pageRefs = <<>>
    /\ debounceRef = 0
    /\ timers = {}
    /\ inputs = <<>>
    /\ saves = <<>>

\* let textMap = new Map()
LoaderStart ==
    /\ textMap = <<>>
    /\ loads = <<>>

NoTrial == [pc |-> "none"]

(***************************************************************************)
(* SpecMerge: getDocumentEditSuggestions applied to one document and one   *)
(* response of the service, one action per return or throw it reaches.     *)
(***************************************************************************)
InitMerge ==
    /\ ServiceStart /\ AppStart /\ ChatStart /\ EditorStart /\ LoaderStart
    /\ \E currentHtml \in OrigDocs :
         \E resp \in Responses(currentHtml) :
           trial = [pc |-> "call", currentHtml |-> currentHtml, resp |-> resp,
                    path |-> "none", out |-> <<>>]

Reaches(path) == EditPath(trial.currentHtml, trial.resp) = path

Finished(path) ==
    [trial EXCEPT
       !.pc = "returned",
       !.path = path,
       !.out = getDocumentEditSuggestions(trial.currentHtml, trial.resp)]

\* throw new Error(...), or fetch rejects: the catch block throws it again
EditThrows ==
    /\ trial.pc = "call"
    /\ Reaches("throw")
    /\ trial' = Finished("throw")
    /\ UNCHANGED <<serviceVars, appVars, chatVars, editorVars, loaderVars>>

\* return { type: 'message', ... }: a wrapper div was not found
EditParseFails ==
    /\ trial.pc = "call"
    /\ Reaches("message")
    /\ trial' = Finished("message")
    /\ UNCHANGED <<serviceVars, appVars, chatVars, editorVars, loaderVars>>

\* the element-append merge
EditMerges ==
    /\ trial.pc = "call"
    /\ Reaches("merge")
    /\ trial' = Finished("merge")
    /\ UNCHANGED <<serviceVars, appVars, chatVars, editorVars, loaderVars>>

\* "AI returned sufficient content, using as-is"
EditSufficient ==
    /\ trial.pc = "call"
    /\ Reaches("sufficient")
    /\ trial' = Finished("sufficient")
    /\ UNCHANGED <<serviceVars, appVars, chatVars, editorVars, loaderVars>>

\* no truncation suspected
EditAsIs ==
    /\ trial.pc = "call"
    /\ Reaches("asis")
    /\ trial' = Finished("asis")
    /\ UNCHANGED <<serviceVars, appVars, chatVars, editorVars, loaderVars>>

NextMerge ==
    \/ EditThrows
    \/ EditParseFails
    \/ EditMerges
    \/ EditSufficient
    \/ EditAsIs

SpecMerge == InitMerge /\ [][NextMerge]_vars

(***************************************************************************)
(* Properties of getDocumentEditSuggestions (SpecMerge).                   *)
(***************************************************************************)
HasReturned == trial.pc = "returned"

\* the values of one call, as its code names them
originalChildrenOf(t) == Children(ParseContainer(t.currentHtml))
aiChildrenOf(t) == Children(ParseContainer(GeneratedText(t.resp)))
imageMapOf(t) == protectImages(t.currentHtml).imageMap
originalLengthOf(t) == HtmlLength(protectImages(t.currentHtml).protectedHtml)
newLengthOf(t) == HtmlLength(GeneratedText(t.resp))

Occurrences(x, s) == Cardinality({ j \in 1..Len(s) : s[j] = x })

InOrder(xs, s) ==
    \A i, j \in 1..Len(xs) :
        i < j => \A a, b \in 1..Len(s) : (s[a] = xs[i] /\ s[b] = xs[j]) => a < b

\* C1: whenever the merge fires (the generated text has fewer than 0.8 N
\* top-level elements), the update holds every one of the N original top-level
\* elements exactly once, in their original relative order.
C1_NoLossMerge ==
    (HasReturned /\ trial.path = "merge") =>
        /\ trial.out.type = "update"
        /\ \A i \in 1..Len(originalChildrenOf(trial)) :
               Occurrences(originalChildrenOf(trial)[i],
                           Children(trial.out.content)) = 1
        /\ InOrder(originalChildrenOf(trial), Children(trial.out.content))

\* C2: for a non-empty original document and any response, an update-kind
\* result never has empty content.
C2_UpdateNeverEmpty ==
    (HasReturned /\ trial.currentHtml # <<>> /\ trial.out.type = "update") =>
        trial.out.content # <<>>

\* C3: when the merge fires with k generated children, the children of the
\* merged root are the first k' generated children (k' = k, or k - 1 when the
\* last one was discarded) followed by the original children from index k' on,
\* so there are exactly N of them.
C3_MergeShape ==
    (HasReturned /\ trial.path = "merge") =>
        LET gen == restoreImages(aiChildrenOf(trial), imageMapOf(trial))
            orig == originalChildrenOf(trial)
            merged == Children(trial.out.content)
        IN /\ Len(merged) = Len(orig)
           /\ \E kk \in {Len(gen), Len(gen) - 1} :
                 /\ kk >= 0
                 /\ \A i \in 1..Len(merged) :
                       merged[i] = IF i <= kk THEN gen[i] ELSE orig[i]

\* a merge that kept a generated child and discarded the one after it
C3_Witness ==
    /\ HasReturned /\ trial.path = "merge"
    /\ Len(aiChildrenOf(trial)) = 2
    /\ Len(originalChildrenOf(trial)) = 3
    /\ Children(trial.out.content)[1] = aiChildrenOf(trial)[1]
    /\ aiChildrenOf(trial)[1].id = 0
    /\ Children(trial.out.content)[2] = originalChildrenOf(trial)[2]

\* C4: the merge fires only when the shielded original is longer than 1000
\* characters, the generated text is shorter than 0.8 of it and holds fewer
\* than 0.8 of its top-level elements; every other update is the fence-stripped
\* generated text with the images restored and nothing else changed.
C4_MergeGuard ==
    HasReturned =>
        LET guard == /\ originalLengthOf(trial) > 1000
                     /\ 10 * newLengthOf(trial) < 8 * originalLengthOf(trial)
                     /\ 10 * Len(aiChildrenOf(trial))
                            < 8 * Len(originalChildrenOf(trial))
        IN /\ trial.path = "merge" => guard
           /\ (trial.out.type = "update" /\ ~guard) =>
                  /\ trial.path # "merge"
                  /\ trial.out.content =
                         restoreImages(GeneratedText(trial.resp), imageMapOf(trial))

\* an update returned as it came although the text is short: the element
\* count was sufficient, and the placeholder was restored
C4_Witness ==
    /\ HasReturned /\ trial.path = "sufficient"
    /\ trial.out.type = "update"
    /\ trial.out.content # GeneratedText(trial.resp)
    /\ trial.out.content # <<>>

C21_DiscardRule ==
    (HasReturned /\ trial.path = "merge") =>
        LET gen == aiChildrenOf(trial)
            k == Len(gen)
            orig == originalChildrenOf(trial)
            merged == Children(trial.out.content)
            discards == /\ k > 0
                        /\ \/ gen[k].len + ValueLen(gen[k].v) < 50
                           \/ gen[k].tag = "hr"
            kk == IF discards THEN k - 1 ELSE k
        IN /\ \A i \in 1..kk :
                 merged[i] = restoreImages(<<gen[i]>>, imageMapOf(trial))[1]
           /\ Len(merged) = kk + (Len(orig) - kk)
           /\ \A i \in (kk + 1)..Len(orig) : merged[i] = orig[i]
           /\ k = 0 => merged = orig

\* two generated children: the first kept, the last, long but without a
\* closing tag, discarded
C21_Witness ==
    /\ HasReturned /\ trial.path = "merge"
    /\ Len(aiChildrenOf(trial)) = 2
    /\ aiChildrenOf(trial)[2].tag = "hr"
    /\ aiChildrenOf(trial)[2].len >= 50
    /\ Children(trial.out.content)[1] = aiChildrenOf(trial)[1]
    /\ Children(trial.out.content)[2] = originalChildrenOf(trial)[2]
    /\ aiChildrenOf(trial)[1].id = 0

\* the HTML a call hands to restoreImages
beforeRestoreOf(t) ==
    IF t.path = "merge"
    THEN MergeAppend(GeneratedText(t.resp), t.currentHtml)
    ELSE GeneratedText(t.resp)

KeysOf(imageMap) == { imageMap[i].key : i \in 1..Len(imageMap) }

\* C12: restoreImages replaces every occurrence of each key by the value
\* recorded for it, however many times the generator wrote the key, and leaves
\* a node that holds no key as it was.
C12_RestoresEveryOccurrence ==
    (HasReturned /\ trial.out.type = "update") =>
        LET before == beforeRestoreOf(trial)
            m == imageMapOf(trial)
            after == trial.out.content
        IN /\ Len(after) = Len(before)
           /\ \A j \in 1..Len(before) :
                 IF \E i \in 1..Len(m) : before[j].v = <<m[i].key>>
                 THEN \E i \in 1..Len(m) :
                         /\ before[j].v = <<m[i].key>>
                         /\ after[j] = [before[j] EXCEPT !.v = m[i].srcData]
                 ELSE after[j] = before[j]

\* the generator wrote the same placeholder twice and both were replaced
C12_Witness ==
    /\ HasReturned /\ trial.path = "asis"
    /\ Len(imageMapOf(trial)) = 1
    /\ Len(GeneratedText(trial.resp)) = 2
    /\ \A j \in 1..2 : GeneratedText(trial.resp)[j].v = <<PlaceholderKey(0)>>
    /\ \A j \in 1..2 : trial.out.content[j].v = <<DataHeader, BlobA>>

\* C13: an update returned on any of the three paths (as-is, sufficient
\* element count, merge) holds no placeholder that is a key of the call's map.
C13_UpdateRestored ==
    (HasReturned /\ trial.out.type = "update") =>
        /\ trial.path \in {"asis", "sufficient", "merge"}
        /\ \A key \in KeysOf(imageMapOf(trial)) :
               ~KeyInHtml(key, trial.out.content)

\* a merge whose kept generated child held a placeholder of the map
C13_Witness ==
    /\ HasReturned /\ trial.path = "merge"
    /\ \E key \in KeysOf(imageMapOf(trial)) :
          KeyInHtml(key, beforeRestoreOf(trial))
    /\ ~KeyInHtml(PlaceholderKey(0), trial.out.content)

(***************************************************************************)
(* The service calls as processes: waitForRateLimit, fetch, the result.    *)
(***************************************************************************)
QuarterInterval == MIN_REQUEST_INTERVAL \div 4
Horizon == LoadTime + MaxTicks * QuarterInterval

\* time passes; a timeout may fire late, never early
Tick(step) ==
    /\ now + step <= Horizon
    /\ now' = now + step
    /\ UNCHANGED <<lastRequestTime, calls, dispatches>>

Started == Len(dispatches) + Cardinality({ q \in Callers : calls[q].pc = "wait" })

\* the timeout's sign turned round
WaitTimeNegated(timeSinceLastRequest) ==
    timeSinceLastRequest - MIN_REQUEST_INTERVAL

\* const waitTime = MIN_REQUEST_INTERVAL - timeSinceLastRequest
WaitTime(timeSinceLastRequest) == MIN_REQUEST_INTERVAL - timeSinceLastRequest

\* a request sent: by whom, when, the call's entry values, whether the call
\* went through the timeout, and lastRequestTime once the request is out
Dispatch(p, kind, call, waited, stamp) ==
    [caller |-> p, kind |-> kind, at |-> now, entered |-> call.entered,
     after |-> call.after, seen |-> call.seen, waited |-> waited, stamp |-> stamp]

\* getDocumentEditSuggestions up to its first suspension: waitForRateLimit
\* either starts its timeout, or sets lastRequestTime and the request is sent
EnterEdit(p, html) ==
    /\ calls[p].pc = "idle"
    /\ Started < MaxDispatches
    /\ LET timeSinceLastRequest == now - lastRequestTime
           call == [IdleCall EXCEPT !.kind = "edit", !.currentHtml = html,
                                    !.entered = now, !.after = Len(dispatches),
                                    !.seen = lastRequestTime]
       IN IF timeSinceLastRequest < MIN_REQUEST_INTERVAL
          THEN /\ calls' = [calls EXCEPT ![p] =
                               [call EXCEPT !.pc = "wait",
                                            !.due = now + WaitTime(timeSinceLastRequest)]]
               /\ UNCHANGED <<lastRequestTime, dispatches>>
          ELSE /\ calls' = [calls EXCEPT ![p] = [call EXCEPT !.pc = "fetch"]]
               /\ lastRequestTime' = now
               /\ dispatches' = Append(dispatches,
                                   Dispatch(p, "edit", call, FALSE, now))
    /\ UNCHANGED now

\* the timeout resolves: lastRequestTime = Date.now(), then fetch
TimerFires(p) ==
    /\ calls[p].pc = "wait"
    /\ now >= calls[p].due
    /\ calls' = [calls EXCEPT ![p].pc = "fetch"]
    /\ lastRequestTime' = now
    /\ dispatches' = Append(dispatches,
                        Dispatch(p, "edit", calls[p], TRUE, now))
    /\ UNCHANGED now

\* the response arrives and getDocumentEditSuggestions returns or throws
Responds(p, resp) ==
    /\ calls[p].pc = "fetch"
    /\ calls[p].kind = "edit"
    /\ calls' = [calls EXCEPT
                   ![p].pc = "settled",
                   ![p].result = getDocumentEditSuggestions(calls[p].currentHtml, resp)]
    /\ UNCHANGED <<now, lastRequestTime, dispatches>>

\* generateImageForReport: the request is sent at once
EnterImage(p) ==
    /\ calls[p].pc = "idle"
    /\ Started < MaxDispatches
    /\ LET call == [IdleCall EXCEPT !.pc = "fetch", !.kind = "image",
                                     !.entered = now, !.after = Len(dispatches),
                                     !.seen = lastRequestTime]
       IN /\ calls' = [calls EXCEPT ![p] = call]
          /\ dispatches' = Append(dispatches,
                              Dispatch(p, "image", call, FALSE, lastRequestTime))
    /\ UNCHANGED <<now, lastRequestTime>>

\* generateImageForReport returns the data URI of the first inline image, or
\* throws: status not ok, no parts, no inline data
ImageResult(resp) ==
    IF ~resp.arrived THEN Thrown("Transport", 0, "")
    ELSE IF ~ResponseOk(resp) THEN Thrown("ApiError", resp.status, resp.statusText)
    ELSE IF ~resp.hasText THEN Thrown("NoContent", 0, "")
    ELSE IF \A i \in 1..Len(resp.raw) : ~MatchesEmbeddedSrc(resp.raw[i])
         THEN Thrown("NoImageData", 0, "")
    ELSE LET first == CHOOSE i \in 1..Len(resp.raw) :
                         /\ MatchesEmbeddedSrc(resp.raw[i])
                         /\ \A j \in 1..(i - 1) : ~MatchesEmbeddedSrc(resp.raw[j])
         IN Returned("image", <<resp.raw[first]>>, "")

ImageResponds(p, resp) ==
    /\ calls[p].pc = "fetch"
    /\ calls[p].kind = "image"
    /\ calls' = [calls EXCEPT ![p].pc = "settled", ![p].result = ImageResult(resp)]
    /\ UNCHANGED <<now, lastRequestTime, dispatches>>

\* the caller has the result
Takes(p) ==
    /\ calls[p].pc = "settled"
    /\ calls' = [calls EXCEPT ![p] = IdleCall]
    /\ UNCHANGED <<now, lastRequestTime, dispatches>>

(***************************************************************************)
(* SpecRate: callers of the two service functions, and the clock.          *)
(***************************************************************************)
RateDoc == <<Node("p", 1, 40, FALSE, "none", <<>>)>>

RateResponses ==
    { Response(TRUE, 429, "Too Many Requests", FALSE, <<>>),
      Response(TRUE, 200, "OK", TRUE, RateDoc) }

ImageResponses ==
    { Response(TRUE, 500, "Internal Server Error", FALSE, <<>>),
      Response(TRUE, 200, "OK", TRUE,
               <<Node("p", 0, 0, FALSE, "src", <<DataHeader, BlobB>>)>>) }

InitRate ==
    /\ ServiceStart /\ AppStart /\ ChatStart /\ EditorStart /\ LoaderStart
    /\ trial = NoTrial

RateTick == Tick(QuarterInterval) /\ UNCHANGED <<appVars, chatVars, editorVars, loaderVars, trial>>

RateEnterEdit ==
    \E p \in Callers : EnterEdit(p, RateDoc) /\ UNCHANGED <<appVars, chatVars, editorVars, loaderVars, trial>>

RateTimerFires ==
    \E p \in Callers : TimerFires(p) /\ UNCHANGED <<appVars, chatVars, editorVars, loaderVars, trial>>

RateResponds ==
    \E p \in Callers : \E resp \in RateResponses :
        Responds(p, resp) /\ UNCHANGED <<appVars, chatVars, editorVars, loaderVars, trial>>

RateEnterImage ==
    \E p \in Callers : EnterImage(p) /\ UNCHANGED <<appVars, chatVars, editorVars, loaderVars, trial>>

RateImageResponds ==
    \E p \in Callers : \E resp \in ImageResponses :
        ImageResponds(p, resp) /\ UNCHANGED <<appVars, chatVars, editorVars, loaderVars, trial>>

RateTakes ==
    \E p \in Callers : Takes(p) /\ UNCHANGED <<appVars, chatVars, editorVars, loaderVars, trial>>

NextRate ==
    \/ RateTick
    \/ RateEnterEdit
    \/ RateTimerFires
    \/ RateResponds
    \/ RateEnterImage
    \/ RateImageResponds
    \/ RateTakes

SpecRate == InitRate /\ [][NextRate]_vars

(***************************************************************************)
(* Properties of the rate limiter (SpecRate).                              *)
(***************************************************************************)
EditDispatches == { i \in 1..Len(dispatches) : dispatches[i].kind = "edit" }

\* C6: of two calls of getDocumentEditSuggestions where the second is made
\* after the first's request was sent, the requests are sent at least
\* MIN_REQUEST_INTERVAL apart; a call made while lastRequestTime is still 0
\* sends its request without waiting.
C6_SequentialSpacing ==
    /\ \A i, j \in EditDispatches :
          (i < j /\ dispatches[j].after >= i) =>
              dispatches[j].at - dispatches[i].at >= MIN_REQUEST_INTERVAL
    /\ \A j \in EditDispatches :
          dispatches[j].seen = 0 => dispatches[j].at = dispatches[j].entered

\* a second call, made inside the interval, that waited it out
C6_Witness ==
    \E i, j \in EditDispatches :
        /\ i < j
        /\ dispatches[j].after >= i
        /\ dispatches[j].entered < dispatches[i].at + MIN_REQUEST_INTERVAL
        /\ dispatches[j].at = dispatches[i].at + MIN_REQUEST_INTERVAL

\* C7: the requests of two getDocumentEditSuggestions calls that were in
\* progress at the same time, both suspended in waitForRateLimit (the second
\* was made before the first's request was sent), are sent at least
\* MIN_REQUEST_INTERVAL apart.
C7_ConcurrentSpacing ==
    \A i, j \in EditDispatches :
        (/\ i < j
         /\ dispatches[i].waited /\ dispatches[j].waited
         /\ dispatches[j].after < i) =>
            dispatches[j].at - dispatches[i].at >= MIN_REQUEST_INTERVAL

\* C8: every request, of getDocumentEditSuggestions or generateImageForReport,
\* leaves its time in lastRequestTime, and a request of a call made after an
\* earlier request was sent is at least MIN_REQUEST_INTERVAL after it.
C8_SharedLimiter ==
    /\ \A j \in 1..Len(dispatches) : dispatches[j].stamp = dispatches[j].at
    /\ \A i, j \in 1..Len(dispatches) :
          (i < j /\ dispatches[j].after >= i) =>
              dispatches[j].at - dispatches[i].at >= MIN_REQUEST_INTERVAL

(***************************************************************************)
(* App: the document state and the undo history.  historyIndex counts from *)
(* 0 as in the code; history[historyIndex + 1] is the entry it points at.  *)
(***************************************************************************)
\* handleFileUpload, once the parsed document is set
Loaded(html) ==
    /\ htmlContent = html
    /\ history = <<html>>
    /\ historyIndex = 0
    /\ isUndoRedo = FALSE

\* every content taken for new
AlwaysDiffers(entries, newHtml) == TRUE

\* historyRef.current[historyRef.current.length - 1] !== newHtml
DiffersFromLast(entries, newHtml) ==
    entries = <<>> \/ entries[Len(entries)] # newHtml

handleUpdateDocument(newHtml) ==
    /\ IF ~isUndoRedo
       THEN LET kept == IF historyIndex < Len(history) - 1
                        THEN SubSeq(history, 1, historyIndex + 1)
                        ELSE history
                pushed == Append(kept, newHtml)
                limited == IF Len(pushed) > MAX_HISTORY THEN Tail(pushed) ELSE pushed
            IN IF DiffersFromLast(kept, newHtml)
               THEN /\ history' = limited
                    /\ historyIndex' = Len(limited) - 1
               ELSE /\ history' = kept
                    /\ historyIndex' = historyIndex
       ELSE UNCHANGED <<history, historyIndex>>
    /\ isUndoRedo' = FALSE
    /\ htmlContent' = newHtml

\* handleUndo (Ctrl+Z)
handleUndo ==
    IF historyIndex > 0
    THEN /\ historyIndex' = historyIndex - 1
         /\ isUndoRedo' = TRUE
         /\ htmlContent' = history[historyIndex' + 1]
         /\ UNCHANGED history
    ELSE UNCHANGED appVars

\* handleRedo (Ctrl+Y, Ctrl+Shift+Z)
handleRedo ==
    IF historyIndex < Len(history) - 1
    THEN /\ historyIndex' = historyIndex + 1
         /\ isUndoRedo' = TRUE
         /\ htmlContent' = history[historyIndex' + 1]
         /\ UNCHANGED history
    ELSE UNCHANGED appVars

(***************************************************************************)
(* ChatInterface.handleSendMessage.  The chat surface calls the service as *)
(* caller "c1".                                                            *)
(***************************************************************************)
\* '<div style="page-break-before: always; break-before: page;"></div>'
pageBreakMarker == Node("marker", 0, 66, FALSE, "none", <<>>)

\* pageRefs.current.filter(...).map(ref => ref.innerHTML).join(pageBreakMarker)
RECURSIVE JoinPages(_)
JoinPages(refs) ==
    IF refs = <<>> THEN <<>>
    ELSE IF Len(refs) = 1 THEN refs[1]
    ELSE refs[1] \o <<pageBreakMarker>> \o JoinPages(Tail(refs))

\* the sections between top-level markers, the empty ones dropped
RECURSIVE SectionsOf(_, _, _)
SectionsOf(html, sections, currentSection) ==
    IF html = <<>>
    THEN IF Len(currentSection) > 0 THEN Append(sections, currentSection)
         ELSE sections
    ELSE IF Head(html) = pageBreakMarker
         THEN IF Len(currentSection) > 0
              THEN SectionsOf(Tail(html), Append(sections, currentSection), <<>>)
              ELSE SectionsOf(Tail(html), sections, currentSection)
         ELSE SectionsOf(Tail(html), sections, Append(currentSection, Head(html)))

\* the effect on htmlContent: setPages(await paginateHtml(htmlContent)), for
\* content whose sections each fit one page
RenderedPages(html) ==
    IF html = <<>> THEN <<>>
    ELSE LET sections == SectionsOf(html, <<>>, <<>>)
         IN IF Len(sections) > 0 THEN sections ELSE <<html>>

\* the editor showing a document just loaded
EditorShows(html) ==
    /\ zoom = 100
    /\ pageRefs = RenderedPages(html)
    /\ debounceRef = 0
    /\ timers = {}
    /\ inputs = <<>>
    /\ saves = <<>>

Chat == "c1"

\* the update applied whatever the result's type
AppliesAnyResult(response) == response.type # "throw"

\* if (response.type === 'update')
AppliesUpdate(response) == response.type = "update"

\* the guard left out
SendAlways == TRUE

\* if (... || isTyping) return
SendAllowed == ~isTyping

\* handleSendMessage up to the await, p the invocation: the user's message,
\* isTyping, the call with the document of the current render
SendsAs(p) ==
    /\ SendAllowed
    /\ messages' = Append(messages, "user")
    /\ isTyping' = TRUE
    /\ EnterEdit(p, htmlContent)

\* after the await, an update: onUpdateDocument(response.content); the new
\* htmlContent is rendered; finally setIsTyping(false)
AppliesUpdateAs(p) ==
    /\ calls[p].pc = "settled"
    /\ AppliesUpdate(calls[p].result)
    /\ handleUpdateDocument(calls[p].result.content)
    /\ pageRefs' = RenderedPages(calls[p].result.content)
    /\ messages' = Append(messages, "done")
    /\ isTyping' = FALSE
    /\ calls' = [calls EXCEPT ![p] = IdleCall]
    /\ UNCHANGED <<now, lastRequestTime, dispatches, zoom, debounceRef, timers,
                   inputs, saves>>

\* after the await, a message-kind result: its content is shown; finally
\* setIsTyping(false)
ShowsMessageAs(p) ==
    /\ calls[p].pc = "settled"
    /\ calls[p].result.type # "throw"
    /\ ~AppliesUpdate(calls[p].result)
    /\ messages' = Append(messages, calls[p].result.error)
    /\ isTyping' = FALSE
    /\ calls' = [calls EXCEPT ![p] = IdleCall]
    /\ UNCHANGED <<now, lastRequestTime, dispatches, appVars, editorVars>>

\* the catch block: the error's message is shown; finally setIsTyping(false)
ShowsErrorAs(p) ==
    /\ calls[p].pc = "settled"
    /\ calls[p].result.type = "throw"
    /\ messages' = Append(messages, "error")
    /\ isTyping' = FALSE
    /\ calls' = [calls EXCEPT ![p] = IdleCall]
    /\ UNCHANGED <<now, lastRequestTime, dispatches, appVars, editorVars>>

handleSendMessage ==
    SendsAs(Chat) /\ UNCHANGED <<appVars, editorVars, loaderVars, trial>>

ChatAppliesUpdate == AppliesUpdateAs(Chat) /\ UNCHANGED <<loaderVars, trial>>

ChatShowsMessage == ShowsMessageAs(Chat) /\ UNCHANGED <<loaderVars, trial>>

ChatShowsError == ShowsErrorAs(Chat) /\ UNCHANGED <<loaderVars, trial>>

(***************************************************************************)
(* SpecChat: a loaded document and the chat surface.                       *)
(***************************************************************************)
ChatDocs ==
    { <<Node("p", 1, 1100, FALSE, "none", <<>>),
        Node("p", 2, 40, FALSE, "none", <<>>),
        Node("p", 3, 60, FALSE, "src", <<DataHeader, BlobA>>)>>,
      <<Node("p", 1, 40, FALSE, "none", <<>>)>> }

ChatResponses(currentHtml) ==
    LET shown == protectImages(currentHtml).protectedHtml
    IN { Response(FALSE, 0, "", FALSE, <<>>),
         Response(TRUE, 429, "Too Many Requests", FALSE, <<>>),
         Response(TRUE, 403, "Forbidden", FALSE, <<>>),
         Response(TRUE, 500, "Internal Server Error", FALSE, <<>>),
         Response(TRUE, 200, "OK", FALSE, <<>>),
         Response(TRUE, 200, "OK", TRUE, shown),
         Response(TRUE, 200, "OK", TRUE,
                  IF shown = <<>> THEN <<>> ELSE <<shown[1]>>),
         Response(TRUE, 200, "OK", TRUE,
                  <<Node("frameset", 0, 10, FALSE, "none", <<>>)>>) }

InitChat ==
    /\ ServiceStart /\ ChatStart /\ LoaderStart
    /\ \E html \in ChatDocs : Loaded(html) /\ EditorShows(html)
    /\ trial = NoTrial

ChatTick == Tick(2 * QuarterInterval) /\ UNCHANGED <<appVars, chatVars, editorVars, loaderVars, trial>>

ChatTimerFires == TimerFires(Chat) /\ UNCHANGED <<appVars, chatVars, editorVars, loaderVars, trial>>

ChatResponds ==
    /\ calls[Chat].pc = "fetch"
    /\ \E resp \in ChatResponses(calls[Chat].currentHtml) : Responds(Chat, resp)
    /\ UNCHANGED <<appVars, chatVars, editorVars, loaderVars, trial>>

NextChat ==
    \/ ChatTick
    \/ handleSendMessage
    \/ ChatTimerFires
    \/ ChatResponds
    \/ ChatAppliesUpdate
    \/ ChatShowsMessage
    \/ ChatShowsError

SpecChat == InitChat /\ [][NextChat]_vars

(***************************************************************************)
(* Properties of the chat surface (SpecChat).                              *)
(***************************************************************************)
\* C5: when the awaited call threw or returned a message-kind result, the
\* chat surface's continuation leaves htmlContent, the undo history and the
\* history index as they were, and appends one chat message.
C5_FailureKeepsDocument ==
    [][ (/\ calls[Chat].pc = "settled"
         /\ calls'[Chat].pc = "idle"
         /\ calls[Chat].result.type \in {"throw", "message"}) =>
            /\ htmlContent' = htmlContent
            /\ history' = history
            /\ historyIndex' = historyIndex
            /\ Len(messages') = Len(messages) + 1 ]_vars

\* a parse failure and a thrown error were shown, the document still the one
\* that was loaded
C5_Witness ==
    /\ \E i \in 1..Len(messages) : messages[i] = "ParseFailed"
    /\ messages[Len(messages)] = "error"
    /\ ~isTyping
    /\ history = <<htmlContent>>

(***************************************************************************)
(* SpecCodec: protectImages applied to a document, restoreImages applied   *)
(* to what it returned.                                                    *)
(***************************************************************************)
CodecNodes(i) ==
    { Node("p", i, 40, FALSE, "none", <<>>),
      Node("p", i, 60, FALSE, "src", <<DataHeader, BlobA>>),
      Node("p", i, 60, FALSE, "src", <<DataHeader, BlobB>>),
      Node("p", i, 60, FALSE, "src", <<DataHeader, BlobB, PlaceholderKey(1)>>),
      Node("p", i, 60, FALSE, "src", <<DataHeader>>),
      Node("p", i, 60, FALSE, "src", <<ExternalUrl>>),
      Node("p", i, 60, FALSE, "src", <<PlaceholderKey(0)>>),
      Node("p", i, 40, FALSE, "text", <<PlaceholderKey(0)>>) }

CodecDocs == UNION { SeqsOver(CodecNodes, n) : n \in 0..MaxCodec }

InitCodec ==
    /\ ServiceStart /\ AppStart /\ ChatStart /\ EditorStart /\ LoaderStart
    /\ \E html \in CodecDocs :
         trial = [pc |-> "html", html |-> html, protectedHtml |-> <<>>,
                  imageMap |-> <<>>, restored |-> <<>>]

CodecProtects ==
    /\ trial.pc = "html"
    /\ trial' = [trial EXCEPT
                   !.pc = "protected",
                   !.protectedHtml = protectImages(trial.html).protectedHtml,
                   !.imageMap = protectImages(trial.html).imageMap]
    /\ UNCHANGED <<serviceVars, appVars, chatVars, editorVars, loaderVars>>

CodecRestores ==
    /\ trial.pc = "protected"
    /\ trial' = [trial EXCEPT
                   !.pc = "restored",
                   !.restored = restoreImages(trial.protectedHtml, trial.imageMap)]
    /\ UNCHANGED <<serviceVars, appVars, chatVars, editorVars, loaderVars>>

NextCodec ==
    \/ CodecProtects
    \/ CodecRestores

SpecCodec == InitCodec /\ [][NextCodec]_vars

(***************************************************************************)
(* Properties of the codec (SpecCodec).                                    *)
(***************************************************************************)
\* C10: restoring what protectImages returned, with the map it returned,
\* gives back the HTML exactly.
C10_RoundTrip ==
    trial.pc = "restored" => trial.restored = trial.html

\* C11: the keys protectImages mints are __IMG_PLACEHOLDER_0__, _1__, ... in
\* order of appearance, pairwise distinct, and none of them is text that the
\* input document or a recorded image value already holds.
C11_PlaceholderUnique ==
    trial.pc \in {"protected", "restored"} =>
        LET m == trial.imageMap
        IN /\ \A i \in 1..Len(m) : m[i].key = PlaceholderKey(i - 1)
           /\ \A i, j \in 1..Len(m) : i # j => m[i].key # m[j].key
           /\ \A i \in 1..Len(m) :
                 /\ ~KeyInHtml(m[i].key, trial.html)
                 /\ \A j \in 1..Len(m) : ~KeyInValue(m[i].key, m[j].srcData)

(***************************************************************************)
(* paginateHtml (onlyofficeService).  Here a top-level node is a record     *)
(*   tag : "p" (a content element), "mention" (a content element whose      *)
(*         markup holds the words 'break-before' without being a marker),   *)
(*         "break" (an element isPageBreak accepts), "text" (a root text    *)
(*         node with characters), "ws" (a whitespace-only root text node),  *)
(*         "frameset" (markup that makes the parser drop the wrapper div)   *)
(*   id  : a label of the node's content                                    *)
(*   offsetHeight, margins : what layout measures for the element (for a    *)
(*         text node: for the paragraph that wraps it)                      *)
(*   synthetic : the element is a paragraph created around a root text node *)
(***************************************************************************)
MAX_PAGE_HEIGHT == 930
pageHeight == 930

PageNode(tag, id, offsetHeight, margins) ==
    [tag |-> tag, id |-> id, offsetHeight |-> offsetHeight,
     margins |-> margins, synthetic |-> FALSE]

\* ["<p><br/></p>"]
EmptyParagraph == <<PageNode("p", 0, 20, 0)>>

IsPageElement(n) == n.tag \in {"p", "mention", "break"}

\* no element taken for a marker
isPageBreakNever(n) == FALSE

isPageBreak(n) == n.tag = "break"

\* !fullHtml || fullHtml.trim().length === 0
IsBlank(fullHtml) == \A i \in 1..Len(fullHtml) : fullHtml[i].tag = "ws"

\* doc.querySelector('div')
PageContainerFound(fullHtml) ==
    \A i \in 1..Len(fullHtml) : fullHtml[i].tag # "frameset"

\* fullHtml.includes('word-page-break') || ... || includes('break-before')
hasExplicitBreaks(fullHtml) ==
    \E i \in 1..Len(fullHtml) : fullHtml[i].tag \in {"break", "mention"}

\* the margins left out of the measure
MeasuredHeightNoMargins(child) == child.offsetHeight

\* child.offsetHeight + marginTop + marginBottom
MeasuredHeight(child) == child.offsetHeight + child.margins

\* only the child's own height compared with the budget
BreakNeededByChildAlone(currentHeight, height, currentPageNodes, budget) ==
    height > budget /\ Len(currentPageNodes) > 0

\* currentHeight + height > MAX_PAGE_HEIGHT && currentPageNodes.length > 0
BreakNeeded(currentHeight, height, currentPageNodes, budget) ==
    currentHeight + height > budget /\ Len(currentPageNodes) > 0

\* for (const child of children) { ... }, then the last page
RECURSIVE SplitLoop(_, _, _, _, _, _)
SplitLoop(children, i, budget, currentPageNodes, currentHeight, pages) ==
    IF i > Len(children)
    THEN IF Len(currentPageNodes) > 0 THEN Append(pages, currentPageNodes)
         ELSE pages
    ELSE LET child == children[i]
             height == MeasuredHeight(child)
         IN IF BreakNeeded(currentHeight, height, currentPageNodes, budget)
            THEN SplitLoop(children, i + 1, budget, <<child>>, height,
                           Append(pages, currentPageNodes))
            ELSE SplitLoop(children, i + 1, budget,
                           Append(currentPageNodes, child),
                           currentHeight + height, pages)

splitByHeight(elements) ==
    IF Len(elements) = 0 THEN <<>>
    ELSE SplitLoop(elements, 1, MAX_PAGE_HEIGHT, <<>>, 0, <<>>)

\* document.createElement('p'); p.textContent = node.textContent
WrapText(node) == [node EXCEPT !.tag = "p", !.synthetic = TRUE]

\* Array.from(container.childNodes).forEach(...), then the last section
RECURSIVE SectionScan(_, _, _, _)
SectionScan(childNodes, i, sections, currentSection) ==
    IF i > Len(childNodes)
    THEN IF Len(currentSection) > 0 THEN Append(sections, currentSection)
         ELSE sections
    ELSE LET node == childNodes[i]
         IN IF IsPageElement(node)
            THEN IF isPageBreak(node)
                 THEN IF Len(currentSection) > 0
                      THEN SectionScan(childNodes, i + 1,
                                       Append(sections, currentSection), <<>>)
                      ELSE SectionScan(childNodes, i + 1, sections, currentSection)
                 ELSE SectionScan(childNodes, i + 1, sections,
                                  Append(currentSection, node))
            ELSE IF node.tag = "text"
                 THEN SectionScan(childNodes, i + 1, sections,
                                  Append(currentSection, WrapText(node)))
                 ELSE SectionScan(childNodes, i + 1, sections, currentSection)

\* for (const section of sections) allPages.push(...await splitByHeight(section))
RECURSIVE SectionPages(_, _)
SectionPages(sections, i) ==
    IF i > Len(sections) THEN <<>>
    ELSE splitByHeight(sections[i]) \o SectionPages(sections, i + 1)

\* the fallback to the input left out
OrNothing(pages, fullHtml) == pages

\* pages.length > 0 ? pages : [fullHtml]
OrInput(pages, fullHtml) == IF Len(pages) > 0 THEN pages ELSE <<fullHtml>>

PagePath(fullHtml) ==
    IF IsBlank(fullHtml) THEN "empty"
    ELSE IF ~PageContainerFound(fullHtml) THEN "nocontainer"
    ELSE IF hasExplicitBreaks(fullHtml) THEN "explicit"
    ELSE "implicit"

paginateHtml(fullHtml) ==
    LET path == PagePath(fullHtml)
    IN CASE path = "empty" -> <<EmptyParagraph>>
         [] path = "nocontainer" -> <<fullHtml>>
         [] path = "explicit" ->
                OrInput(SectionPages(SectionScan(fullHtml, 1, <<>>, <<>>), 1),
                        fullHtml)
         [] OTHER ->
                OrInput(SplitLoop(SelectSeq(fullHtml, IsPageElement), 1,
                                  pageHeight, <<>>, 0, <<>>),
                        fullHtml)

(***************************************************************************)
(* SpecPages: paginateHtml applied to one document, one action per return  *)
(* statement it reaches.                                                   *)
(***************************************************************************)
PageNodes(i) ==
    { PageNode("p", i, 300, 30),
      PageNode("p", i, 600, 0),
      PageNode("p", i, 900, 40),
      PageNode("p", i, 0, 0),
      PageNode("break", i, 0, 0),
      PageNode("text", i, 300, 30),
      PageNode("ws", i, 0, 0) }
    \cup (IF i = 1 THEN { PageNode("mention", i, 300, 30),
                          PageNode("frameset", i, 0, 0) }
          ELSE {})

RECURSIVE PageSeqs(_)
PageSeqs(n) ==
    IF n = 0 THEN { <<>> }
    ELSE { Append(s, x) : s \in PageSeqs(n - 1), x \in PageNodes(n) }

PageDocs == UNION { PageSeqs(n) : n \in 0..MaxPageNodes }

InitPages ==
    /\ ServiceStart /\ AppStart /\ ChatStart /\ EditorStart /\ LoaderStart
    /\ \E fullHtml \in PageDocs :
         trial = [pc |-> "html", fullHtml |-> fullHtml, path |-> "none",
                  pages |-> <<>>]

Paginated(path) ==
    [trial EXCEPT !.pc = "paginated", !.path = path,
                  !.pages = paginateHtml(trial.fullHtml)]

\* return ["<p><br/></p>"]
PaginateEmpty ==
    /\ trial.pc = "html"
    /\ PagePath(trial.fullHtml) = "empty"
    /\ trial' = Paginated("empty")
    /\ UNCHANGED <<serviceVars, appVars, chatVars, editorVars, loaderVars>>

\* if (!container) return [fullHtml]
PaginateNoContainer ==
    /\ trial.pc = "html"
    /\ PagePath(trial.fullHtml) = "nocontainer"
    /\ trial' = Paginated("nocontainer")
    /\ UNCHANGED <<serviceVars, appVars, chatVars, editorVars, loaderVars>>

\* if (hasExplicitBreaks) { ... return allPages.length > 0 ? allPages : [fullHtml] }
PaginateExplicit ==
    /\ trial.pc = "html"
    /\ PagePath(trial.fullHtml) = "explicit"
    /\ trial' = Paginated("explicit")
    /\ UNCHANGED <<serviceVars, appVars, chatVars, editorVars, loaderVars>>

\* no explicit breaks: return pages.length > 0 ? pages : [fullHtml]
PaginateImplicit ==
    /\ trial.pc = "html"
    /\ PagePath(trial.fullHtml) = "implicit"
    /\ trial' = Paginated("implicit")
    /\ UNCHANGED <<serviceVars, appVars, chatVars, editorVars, loaderVars>>

NextPages ==
    \/ PaginateEmpty
    \/ PaginateNoContainer
    \/ PaginateExplicit
    \/ PaginateImplicit

SpecPages == InitPages /\ [][NextPages]_vars

(***************************************************************************)
(* Properties of paginateHtml (SpecPages).                                 *)
(***************************************************************************)
HasPaginated == trial.pc = "paginated"

RECURSIVE Flatten(_)
Flatten(pages) ==
    IF pages = <<>> THEN <<>> ELSE Head(pages) \o Flatten(Tail(pages))

\* nothing in the document gives the splitter a child: in explicit mode only
\* break markers and blank text, in implicit mode no element
NoPageSource(t) ==
    \/ /\ t.path = "explicit"
       /\ \A i \in 1..Len(t.fullHtml) : t.fullHtml[i].tag \in {"break", "ws"}
    \/ /\ t.path = "implicit"
       /\ \A i \in 1..Len(t.fullHtml) : t.fullHtml[i].tag \in {"text", "ws"}

\* the splitter produced the fragments (they are not the input handed back)
SplitterProduced(t) ==
    /\ t.path \in {"explicit", "implicit"}
    /\ ~NoPageSource(t)

\* a child of the document that carries content: an element that is no break
\* marker, or a root text node with characters
IsContentNode(n) == n.tag \in {"p", "mention", "text"}

\* the child a fragment's child stands for: a synthetic paragraph stands for
\* the text node it wraps
Recovered(n) == IF n.synthetic THEN [n EXCEPT !.tag = "text", !.synthetic = FALSE] ELSE n

RecoveredChildren(pages) ==
    LET kept == SelectSeq(Flatten(pages), IsContentNode)
    IN [i \in 1..Len(kept) |-> Recovered(kept[i])]

\* C14: in both modes the children of the fragments, concatenated in order,
\* are the top-level children of the document in order, break markers left
\* out and every content child there exactly once.
C14_PaginationRoundTrip ==
    (HasPaginated /\ trial.path \in {"explicit", "implicit"}) =>
        RecoveredChildren(trial.pages) = SelectSeq(trial.fullHtml, IsContentNode)

\* C15: paginateHtml returns at least one fragment for every input: a
\* blank document gives exactly one fragment, the empty paragraph, and a
\* document that gives the splitter nothing gives one fragment, the input.
C15_AtLeastOneFragment ==
    HasPaginated =>
        /\ Len(trial.pages) >= 1
        /\ IsBlank(trial.fullHtml) => trial.pages = <<EmptyParagraph>>
        /\ NoPageSource(trial) => trial.pages = <<trial.fullHtml>>

\* a document of break markers only came back as one fragment
C15_Witness ==
    /\ HasPaginated /\ trial.path = "explicit"
    /\ Len(trial.fullHtml) >= 2
    /\ \A i \in 1..Len(trial.fullHtml) : trial.fullHtml[i].tag = "break"
    /\ trial.pages = <<trial.fullHtml>>

RECURSIVE SumOfHeights(_)
SumOfHeights(fragment) ==
    IF fragment = <<>> THEN 0
    ELSE Head(fragment).offsetHeight + Head(fragment).margins
             + SumOfHeights(Tail(fragment))

\* C16: in every fragment the splitter produces, the heights of its children
\* (offset height plus margins) add up to at most 930 pixels, unless the
\* fragment holds exactly one child.
C16_PageBudget ==
    (HasPaginated /\ SplitterProduced(trial)) =>
        \A f \in 1..Len(trial.pages) :
            \/ Len(trial.pages[f]) = 1
            \/ SumOfHeights(trial.pages[f]) <= 930

\* a fragment filled exactly to the budget by two children, and one after it
C16_Witness ==
    /\ HasPaginated /\ SplitterProduced(trial)
    /\ Len(trial.pages) = 2
    /\ Len(trial.pages[1]) = 2
    /\ SumOfHeights(trial.pages[1]) = 930
    /\ trial.pages[1][1].margins > 0

MarkersConsumed(t) ==
    /\ \A f \in 1..Len(t.pages) :
          /\ Len(t.pages[f]) >= 1
          /\ \A c \in 1..Len(t.pages[f]) : t.pages[f][c].tag # "break"
          /\ \A a, b \in 1..Len(t.pages[f]) :
                \A m \in 1..Len(t.fullHtml) :
                    (t.pages[f][a].id < m /\ m < t.pages[f][b].id)
                        => t.fullHtml[m].tag # "break"

\* C22 as stated: in explicit mode no returned fragment holds a break marker,
\* two content elements separated by a top-level marker never share a
\* fragment, and no fragment is empty.
C22_MarkersConsumedAlways ==
    (HasPaginated /\ trial.path = "explicit") => MarkersConsumed(trial)

\* C22: the same, for a document that holds at least one child other than
\* break markers and blank text.
C22_MarkersConsumed ==
    (HasPaginated /\ trial.path = "explicit" /\ ~NoPageSource(trial)) =>
        MarkersConsumed(trial)

\* two paragraphs with two markers in a row between them, on two fragments
C22_Witness ==
    /\ HasPaginated /\ trial.path = "explicit"
    /\ Len(trial.fullHtml) = 4
    /\ trial.fullHtml[1].tag = "p" /\ trial.fullHtml[4].tag = "p"
    /\ trial.fullHtml[2].tag = "break" /\ trial.fullHtml[3].tag = "break"
    /\ trial.fullHtml[1].offsetHeight = 300 /\ trial.fullHtml[4].offsetHeight = 300
    /\ trial.pages = << <<trial.fullHtml[1]>>, <<trial.fullHtml[4]>> >>

(***************************************************************************)
(* The PDF text locator (findTextCoordinates).  A string is a sequence of  *)
(* one-character strings.  Lengths and coordinates are in tenths of a PDF  *)
(* unit, so that the descender correction (a quarter and a tenth of the    *)
(* height) stays in whole numbers; character indices count from 0 as in    *)
(* the code, -1 is indexOf's "not found", item indices count from 1.       *)
(***************************************************************************)
NoCoordinates == [kind |-> "null"]

NotSpace(c) == c # " "

\* str.replace(/\s+/g, '')
Normalize(str) == SelectSeq(str, NotSpace)

RECURSIVE Repeat(_, _)
Repeat(c, n) == IF n = 0 THEN <<>> ELSE <<c>> \o Repeat(c, n - 1)

\* items.forEach: fullNormalizedPage
RECURSIVE FullNormalizedPage(_)
FullNormalizedPage(items) ==
    IF items = <<>> THEN <<>>
    ELSE Head(items).normalized \o FullNormalizedPage(Tail(items))

\* items.forEach: charToItemMap
RECURSIVE CharToItemMap(_, _)
CharToItemMap(items, index) ==
    IF index > Len(items) THEN <<>>
    ELSE Repeat(index, Len(items[index].normalized))
             \o CharToItemMap(items, index + 1)

SetMin(S) == CHOOSE x \in S : \A y \in S : x <= y
SetMax(S) == CHOOSE x \in S : \A y \in S : x >= y

OccursAt(hay, needle, k) ==
    /\ k + Len(needle) <= Len(hay)
    /\ SubSeq(hay, k + 1, k + Len(needle)) = needle

\* the last occurrence taken
LastIndexOf(hay, needle) ==
    LET at == { k \in 0..Len(hay) : OccursAt(hay, needle, k) }
    IN IF at = {} THEN -1 ELSE SetMax(at)

\* String.indexOf
IndexOf(hay, needle) ==
    LET at == { k \in 0..Len(hay) : OccursAt(hay, needle, k) }
    IN IF at = {} THEN -1 ELSE SetMin(at)

\* the empty search let through
SearchNeverEmpty(searchNormalized) == FALSE

\* searchNormalized.length === 0
SearchIsEmpty(searchNormalized) == Len(searchNormalized) = 0

\* the search text not cut to its first 30 characters
PartialSearchUncut(searchNormalized) == searchNormalized

\* searchNormalized.substring(0, 30)
PartialSearch(searchNormalized) ==
    SubSeq(searchNormalized, 1,
           IF Len(searchNormalized) < 30 THEN Len(searchNormalized) ELSE 30)

CountOf(S, Flag(_)) == Cardinality({ idx \in S : Flag(idx) })

\* totalFontSize += item.fontSize
RECURSIVE TotalFontSize(_, _)
TotalFontSize(S, items) ==
    IF S = {} THEN 0
    ELSE LET idx == SetMin(S)
         IN items[idx].fontSize + TotalFontSize(S \ {idx}, items)

calculateBoundingBoxFromIndices(items, charMap, startCharIdx, endCharIdx) ==
    LET uniqueItemIndices ==
            { charMap[i + 1] :
                  i \in { j \in startCharIdx..(endCharIdx - 1) : j < Len(charMap) } }
        itemCount == Cardinality(uniqueItemIndices)
        IsBoldAt(idx) == items[idx].isBold
        IsItalicAt(idx) == items[idx].isItalic
        IsSerifAt(idx) == items[idx].isSerif
        style ==
            [fontSize |->
                 IF itemCount > 0
                 THEN [sum |-> TotalFontSize(uniqueItemIndices, items),
                       over |-> itemCount]
                 ELSE [sum |-> 110, over |-> 1],
             isBold |-> 2 * CountOf(uniqueItemIndices, IsBoldAt) > itemCount,
             isItalic |-> 2 * CountOf(uniqueItemIndices, IsItalicAt) > itemCount,
             isSerif |-> 2 * CountOf(uniqueItemIndices, IsSerifAt) > itemCount]
    IN IF uniqueItemIndices = {}
       THEN [kind |-> "found", bbox |-> "Infinity", style |-> style]
       ELSE LET minX == SetMin({ items[idx].x : idx \in uniqueItemIndices })
                minY == SetMin({ items[idx].y : idx \in uniqueItemIndices })
                maxX == SetMax({ items[idx].x + items[idx].width :
                                     idx \in uniqueItemIndices })
                maxY == SetMax({ items[idx].y + items[idx].height :
                                     idx \in uniqueItemIndices })
                avgHeight == IF maxY - minY = 0 THEN 120 ELSE maxY - minY
                lowY == minY - (avgHeight * 25) \div 100
                highY == maxY + (avgHeight * 10) \div 100
            IN [kind |-> "found",
                bbox |-> [x |-> minX, y |-> lowY,
                          width |-> maxX - minX, height |-> highY - lowY],
                style |-> style]

\* textMap.get(pageIndex)
ItemsOf(map, pageIndex) ==
    IF pageIndex \in DOMAIN map THEN map[pageIndex] ELSE <<>>

\* which return statement a call reaches
LocatePath(map, pageIndex, searchText) ==
    LET items == ItemsOf(map, pageIndex)
        fullNormalizedPage == FullNormalizedPage(items)
        searchNormalized == Normalize(searchText)
        partialSearch == PartialSearch(searchNormalized)
    IN IF Len(items) = 0 THEN "noitems"
       ELSE IF SearchIsEmpty(searchNormalized) THEN "emptysearch"
       ELSE IF IndexOf(fullNormalizedPage, searchNormalized) # -1 THEN "exact"
       ELSE IF Len(partialSearch) < 5 THEN "tooshort"
       ELSE IF IndexOf(fullNormalizedPage, partialSearch) # -1 THEN "partial"
       ELSE "notfound"

findTextCoordinates(map, pageIndex, searchText) ==
    LET items == ItemsOf(map, pageIndex)
        fullNormalizedPage == FullNormalizedPage(items)
        charToItemMap == CharToItemMap(items, 1)
        searchNormalized == Normalize(searchText)
        startIndex == IndexOf(fullNormalizedPage, searchNormalized)
        partialIndex == IndexOf(fullNormalizedPage, PartialSearch(searchNormalized))
        reached == partialIndex + Len(searchNormalized)
        estimatedEnd == IF Len(fullNormalizedPage) < reached
                        THEN Len(fullNormalizedPage) ELSE reached
        path == LocatePath(map, pageIndex, searchText)
    IN CASE path = "exact" ->
                calculateBoundingBoxFromIndices(items, charToItemMap, startIndex,
                    startIndex + Len(searchNormalized))
         [] path = "partial" ->
                calculateBoundingBoxFromIndices(items, charToItemMap, partialIndex,
                    estimatedEnd)
         [] OTHER -> NoCoordinates

(***************************************************************************)
(* SpecLocate: findTextCoordinates applied to one loaded page and one      *)
(* search text, one action per return statement it reaches.                *)
(***************************************************************************)
\* a text item as loadPdfDocument stores it
TextItem(str, x, y, width, height, isBold, isItalic, isSerif, fontSize) ==
    [str |-> str, normalized |-> Normalize(str), x |-> x, y |-> y,
     width |-> width, height |-> height, isBold |-> isBold,
     isItalic |-> isItalic, isSerif |-> isSerif, fontSize |-> fontSize]

LongRun == Repeat("c", 30)

ItemsAt(i) ==
    { TextItem(<<"a", " ", "b">>, 200 * i, 1000, 160, 100, TRUE, FALSE, FALSE, 100),
      TextItem(<<"b">>, 200 * i, 800, 100, 0, FALSE, TRUE, FALSE, 120),
      TextItem(<<" ">>, 0, 0, 60, 0, FALSE, FALSE, FALSE, 100),
      TextItem(LongRun, 200 * i, 1000 + 20 * i, 1800, 100, TRUE, FALSE, TRUE, 100) }

RECURSIVE ItemSeqs(_)
ItemSeqs(n) ==
    IF n = 0 THEN { <<>> }
    ELSE { Append(s, x) : s \in ItemSeqs(n - 1), x \in ItemsAt(n) }

Pieces == { <<"a">>, <<"b">>, <<" ">>, LongRun }

RECURSIVE PieceSeqs(_)
PieceSeqs(n) ==
    IF n = 0 THEN { <<>> }
    ELSE { s \o x : s \in PieceSeqs(n - 1), x \in Pieces }

SearchTexts == UNION { PieceSeqs(n) : n \in 0..MaxSearch }

\* page 0 is loaded; a call may name it or a page that is not there
InitLocate ==
    /\ ServiceStart /\ AppStart /\ ChatStart /\ EditorStart /\ LoaderStart
    /\ \E n \in 0..MaxItems : \E items \in ItemSeqs(n) :
         \E searchText \in SearchTexts : \E pageIndex \in {0, 1} :
           /\ pageIndex = 1 => Len(searchText) <= 1
           /\ trial = [pc |-> "search", textMap |-> (0 :> items),
                       pageIndex |-> pageIndex, searchText |-> searchText,
                       path |-> "none", out |-> NoCoordinates]

LocateGoes(path) ==
    LocatePath(trial.textMap, trial.pageIndex, trial.searchText) = path

Located(path) ==
    [trial EXCEPT
       !.pc = "located",
       !.path = path,
       !.out = findTextCoordinates(trial.textMap, trial.pageIndex,
                                   trial.searchText)]

\* if (!items || items.length === 0) return null
LocateNoItems ==
    /\ trial.pc = "search" /\ LocateGoes("noitems")
    /\ trial' = Located("noitems")
    /\ UNCHANGED <<serviceVars, appVars, chatVars, editorVars, loaderVars>>

\* if (searchNormalized.length === 0) return null
LocateEmptySearch ==
    /\ trial.pc = "search" /\ LocateGoes("emptysearch")
    /\ trial' = Located("emptysearch")
    /\ UNCHANGED <<serviceVars, appVars, chatVars, editorVars, loaderVars>>

\* the exact match
LocateExact ==
    /\ trial.pc = "search" /\ LocateGoes("exact")
    /\ trial' = Located("exact")
    /\ UNCHANGED <<serviceVars, appVars, chatVars, editorVars, loaderVars>>

\* if (partialSearch.length < 5) return null
LocateTooShort ==
    /\ trial.pc = "search" /\ LocateGoes("tooshort")
    /\ trial' = Located("tooshort")
    /\ UNCHANGED <<serviceVars, appVars, chatVars, editorVars, loaderVars>>

\* the first 30 characters matched
LocatePartial ==
    /\ trial.pc = "search" /\ LocateGoes("partial")
    /\ trial' = Located("partial")
    /\ UNCHANGED <<serviceVars, appVars, chatVars, editorVars, loaderVars>>

\* return null after the fallback
LocateNotFound ==
    /\ trial.pc = "search" /\ LocateGoes("notfound")
    /\ trial' = Located("notfound")
    /\ UNCHANGED <<serviceVars, appVars, chatVars, editorVars, loaderVars>>

NextLocate ==
    \/ LocateNoItems
    \/ LocateEmptySearch
    \/ LocateExact
    \/ LocateTooShort
    \/ LocatePartial
    \/ LocateNotFound

SpecLocate == InitLocate /\ [][NextLocate]_vars

(***************************************************************************)
(* Properties of findTextCoordinates (SpecLocate).                         *)
(***************************************************************************)
HasLocated == trial.pc = "located"

itemsOf(t) == ItemsOf(t.textMap, t.pageIndex)
streamOf(t) == FullNormalizedPage(itemsOf(t))

Occurs(hay, needle) == \E k \in 0..Len(hay) : OccursAt(hay, needle, k)

\* the characters of the stream before item i
RECURSIVE OffsetOf(_, _)
OffsetOf(items, i) ==
    IF i = 1 THEN 0 ELSE OffsetOf(items, i - 1) + Len(items[i - 1].normalized)

\* the items that hold a character of the range [start, start + length)
CoveredItems(items, start, length) ==
    { i \in 1..Len(items) :
          \E k \in start..(start + length - 1) :
              /\ OffsetOf(items, i) <= k
              /\ k < OffsetOf(items, i) + Len(items[i].normalized) }

FirstOccurrence(hay, needle) ==
    CHOOSE k \in 0..Len(hay) :
        /\ OccursAt(hay, needle, k)
        /\ \A j \in 0..(k - 1) : ~OccursAt(hay, needle, j)

MoreThanHalf(S, Flag(_)) == 2 * Cardinality({ i \in S : Flag(i) }) > Cardinality(S)

\* C18: when the whitespace-stripped search text occurs in the page's stream,
\* the result is built from its first occurrence: before the descender
\* correction the box is the union of the boxes of exactly the items that hold
\* a character of the matched range, and each style flag is true if and only
\* if more than half of those items have it.
C18_ExactMatch ==
    (/\ HasLocated
     /\ Len(itemsOf(trial)) > 0
     /\ Len(Normalize(trial.searchText)) > 0
     /\ Occurs(streamOf(trial), Normalize(trial.searchText))) =>
        LET items == itemsOf(trial)
            search == Normalize(trial.searchText)
            S == CoveredItems(items, FirstOccurrence(streamOf(trial), search),
                              Len(search))
            minX == SetMin({ items[i].x : i \in S })
            minY == SetMin({ items[i].y : i \in S })
            maxX == SetMax({ items[i].x + items[i].width : i \in S })
            maxY == SetMax({ items[i].y + items[i].height : i \in S })
            correction == IF maxY = minY THEN 120 ELSE maxY - minY
            Bold(i) == items[i].isBold
            Italic(i) == items[i].isItalic
            Serif(i) == items[i].isSerif
        IN /\ trial.out.kind = "found"
           /\ trial.out.bbox.x = minX
           /\ trial.out.bbox.x + trial.out.bbox.width = maxX
           /\ 4 * (minY - trial.out.bbox.y) = correction
           /\ 10 * (trial.out.bbox.y + trial.out.bbox.height - maxY) = correction
           /\ trial.out.style.isBold <=> MoreThanHalf(S, Bold)
           /\ trial.out.style.isItalic <=> MoreThanHalf(S, Italic)
           /\ trial.out.style.isSerif <=> MoreThanHalf(S, Serif)

\* the search text occurs twice; the first occurrence spans two items, one of
\* them bold, so the result is not bold
C18_Witness ==
    /\ HasLocated /\ trial.path = "exact"
    /\ Cardinality({ k \in 0..Len(streamOf(trial)) :
                       OccursAt(streamOf(trial), Normalize(trial.searchText), k) }) >= 2
    /\ Len(trial.searchText) > Len(Normalize(trial.searchText))
    /\ LET S == CoveredItems(itemsOf(trial),
                    FirstOccurrence(streamOf(trial), Normalize(trial.searchText)),
                    Len(Normalize(trial.searchText)))
       IN /\ Cardinality(S) = 2
          /\ Cardinality({ i \in S : itemsOf(trial)[i].isBold }) = 1
    /\ ~trial.out.style.isBold

\* C19: findTextCoordinates returns null when the page has no items, when the
\* whitespace-stripped search text is empty, or when neither that text nor its
\* first 30 characters occur in the page's stream.
C19_NotFound ==
    LET search == Normalize(trial.searchText)
        first30 == SubSeq(search, 1, IF Len(search) < 30 THEN Len(search) ELSE 30)
    IN (/\ HasLocated
        /\ \/ Len(itemsOf(trial)) = 0
           \/ Len(search) = 0
           \/ /\ ~Occurs(streamOf(trial), search)
              /\ ~Occurs(streamOf(trial), first30)) =>
           trial.out = NoCoordinates

\* a search of more than 30 characters whose first 30 are not on the page
C19_Witness ==
    /\ HasLocated /\ trial.path = "notfound"
    /\ Len(itemsOf(trial)) > 0
    /\ Len(Normalize(trial.searchText)) > 30
    /\ trial.out = NoCoordinates

\* the result is the box (descender correction undone) and the style of the
\* items S
IsBoxAndStyleOf(out, items, S) ==
    LET minX == SetMin({ items[i].x : i \in S })
        minY == SetMin({ items[i].y : i \in S })
        maxX == SetMax({ items[i].x + items[i].width : i \in S })
        maxY == SetMax({ items[i].y + items[i].height : i \in S })
        correction == IF maxY = minY THEN 120 ELSE maxY - minY
        Bold(i) == items[i].isBold
        Italic(i) == items[i].isItalic
        Serif(i) == items[i].isSerif
    IN /\ out.kind = "found"
       /\ out.bbox.x = minX
       /\ out.bbox.x + out.bbox.width = maxX
       /\ 4 * (minY - out.bbox.y) = correction
       /\ 10 * (out.bbox.y + out.bbox.height - maxY) = correction
       /\ out.style.isBold <=> MoreThanHalf(S, Bold)
       /\ out.style.isItalic <=> MoreThanHalf(S, Italic)
       /\ out.style.isSerif <=> MoreThanHalf(S, Serif)

\* C24: when the whitespace-stripped search text has no exact occurrence, the
\* result is null if its first 30 characters are fewer than 5 or do not occur;
\* otherwise it is the box and style of the items covering the range that
\* starts at the first occurrence of those 30 characters and has the length of
\* the whole search text, cut at the end of the page's stream.
C24_Fallback ==
    LET items == itemsOf(trial)
        stream == streamOf(trial)
        search == Normalize(trial.searchText)
        first30 == SubSeq(search, 1, IF Len(search) < 30 THEN Len(search) ELSE 30)
    IN (HasLocated /\ ~Occurs(stream, search)) =>
           IF Len(first30) < 5 \/ ~Occurs(stream, first30)
           THEN trial.out = NoCoordinates
           ELSE LET from == FirstOccurrence(stream, first30)
                    upto == IF from + Len(search) > Len(stream)
                            THEN Len(stream) ELSE from + Len(search)
                IN IsBoxAndStyleOf(trial.out, items,
                                   CoveredItems(items, from, upto - from))

\* the first 30 characters are found twice, and the range of the whole search
\* text runs past the end of the stream
C24_Witness ==
    /\ HasLocated /\ trial.path = "partial"
    /\ LET stream == streamOf(trial)
           search == Normalize(trial.searchText)
           first30 == SubSeq(search, 1, 30)
       IN /\ Len(search) > 30
          /\ Cardinality({ k \in 0..Len(stream) : OccursAt(stream, first30, k) }) >= 2
          /\ FirstOccurrence(stream, first30) + Len(search) > Len(stream)
    /\ trial.out.kind = "found"

(***************************************************************************)
(* SpecZoom: the editor area's onWheel handler.  trial holds the wheel     *)
(* event handled last and the zoom it found.                               *)
(***************************************************************************)
\* the clamp left out
Unclamped(value) == value

\* Math.max(25, Math.min(200, value))
ClampZoom(value) ==
    LET capped == IF value < 200 THEN value ELSE 200
    IN IF capped > 25 THEN capped ELSE 25

WheelEvent(ctrlKey, metaKey, deltaY) ==
    [pc |-> "wheel", ctrlKey |-> ctrlKey, metaKey |-> metaKey,
     deltaY |-> deltaY, before |-> zoom]

InitZoom ==
    /\ ServiceStart /\ AppStart /\ ChatStart /\ EditorStart /\ LoaderStart
    /\ trial = NoTrial

\* onWheel with Ctrl or Cmd held
WheelZooms ==
    \E ctrlKey, metaKey \in BOOLEAN : \E deltaY \in {-100, 0, 100} :
        /\ ctrlKey \/ metaKey
        /\ LET delta == IF deltaY > 0 THEN -10 ELSE 10
           IN zoom' = ClampZoom(zoom + delta)
        /\ trial' = WheelEvent(ctrlKey, metaKey, deltaY)
        /\ UNCHANGED <<serviceVars, appVars, chatVars, persistVars, loaderVars>>

\* onWheel without the modifier: the area scrolls
WheelScrolls ==
    \E deltaY \in {-100, 0, 100} :
        /\ trial' = WheelEvent(FALSE, FALSE, deltaY)
        /\ UNCHANGED <<serviceVars, appVars, chatVars, editorVars, loaderVars>>

NextZoom ==
    \/ WheelZooms
    \/ WheelScrolls

SpecZoom == InitZoom /\ [][NextZoom]_vars

\* C20: starting from 100, the zoom stays within 25 to 200 after any wheel
\* events; an event with Ctrl or Cmd held moves it by 10 up or down, clamped
\* to that range, and an event without the modifier leaves it as it was.
C20_ZoomRange ==
    /\ zoom >= 25 /\ zoom <= 200
    /\ trial.pc = "wheel" =>
          IF trial.ctrlKey \/ trial.metaKey
          THEN \E step \in {-10, 10} :
                  /\ step = -10 <=> trial.deltaY > 0
                  /\ zoom = IF trial.before + step > 200 THEN 200
                            ELSE IF trial.before + step < 25 THEN 25
                            ELSE trial.before + step
          ELSE zoom = trial.before

\* zooming out from 30 stopped at 25
C20_Witness ==
    /\ trial.pc = "wheel" /\ trial.metaKey /\ ~trial.ctrlKey
    /\ trial.before = 30
    /\ zoom = 25

(***************************************************************************)
(* DocumentEditor: the pages, handleInput and its debounced persist.       *)
(* A timeout is [id, due]; its id is the number of the handleInput call    *)
(* that set it.                                                            *)
(***************************************************************************)
DebounceDelay == 500

\* the pending timeout left running
KeepTimeout(pending, ref) == pending

\* if (debounceRef.current) clearTimeout(debounceRef.current)
ClearTimeout(pending, ref) == { t \in pending : t.id # ref }

\* what the user's input leaves on the page
Typed(content, kind, n) ==
    IF kind = "clear" THEN <<>>
    ELSE Append(content, Node("p", 100 + n, 40, FALSE, "none", <<>>))

\* an input event on a page, and handleInput(pageIndex)
handleInput(pageIndex, kind) ==
    LET n == Len(inputs) + 1
        left == ClearTimeout(timers, debounceRef)
    IN /\ pageRefs' = [pageRefs EXCEPT ![pageIndex] = Typed(@, kind, n)]
       /\ timers' = left \cup { [id |-> n, due |-> now + DebounceDelay] }
       /\ debounceRef' = n
       /\ inputs' = Append(inputs, [at |-> now, pageIndex |-> pageIndex])
       /\ UNCHANGED <<zoom, saves>>

\* the timeout's callback: the pages collected and handed to onContentChange,
\* which is App's handleUpdateDocument; the new htmlContent is rendered
PersistFires(t) ==
    LET fullHtml == JoinPages(pageRefs)
    IN /\ t \in timers
       /\ t.due <= now
       /\ timers' = timers \ {t}
       /\ IF fullHtml # <<>>
          THEN /\ handleUpdateDocument(fullHtml)
               /\ pageRefs' = RenderedPages(fullHtml)
               /\ saves' = Append(saves, [at |-> now, timer |-> t.id,
                                           seen |-> Len(inputs),
                                           shown |-> pageRefs,
                                           fullHtml |-> fullHtml])
          ELSE UNCHANGED <<appVars, pageRefs, saves>>
       /\ UNCHANGED <<zoom, debounceRef, inputs>>

(***************************************************************************)
(* SpecEditor: a loaded document in the editor, the user's input events    *)
(* and the clock.                                                          *)
(***************************************************************************)
EditorDocs ==
    { <<Node("p", 1, 40, FALSE, "none", <<>>)>>,
      <<Node("p", 1, 40, FALSE, "none", <<>>), pageBreakMarker,
        Node("p", 2, 40, FALSE, "none", <<>>)>> }

InitEditor ==
    /\ ServiceStart /\ ChatStart
    /\ \E html \in EditorDocs : Loaded(html) /\ EditorShows(html)
    /\ LoaderStart
    /\ trial = NoTrial

EditorHorizon == LoadTime + MaxEditorTicks * (DebounceDelay \div 2)

EditorTick ==
    /\ now + DebounceDelay \div 2 <= EditorHorizon
    /\ now' = now + DebounceDelay \div 2
    /\ UNCHANGED <<lastRequestTime, calls, dispatches, appVars, chatVars,
                   editorVars, loaderVars, trial>>

EditorInput ==
    /\ Len(inputs) < MaxInputs
    /\ \E pageIndex \in 1..Len(pageRefs) : \E kind \in {"type", "clear"} :
          handleInput(pageIndex, kind)
    /\ UNCHANGED <<serviceVars, appVars, chatVars, loaderVars, trial>>

EditorPersists ==
    /\ \E t \in timers : PersistFires(t)
    /\ UNCHANGED <<serviceVars, chatVars, loaderVars, trial>>

NextEditor ==
    \/ EditorTick
    \/ EditorInput
    \/ EditorPersists

SpecEditor == InitEditor /\ [][NextEditor]_vars

(***************************************************************************)
(* Properties of the debounce (SpecEditor).                                *)
(***************************************************************************)
\* the pages' content in order, a marker between each two
RECURSIVE WithMarkersBetween(_, _)
WithMarkersBetween(refs, n) ==
    IF n = 0 THEN <<>>
    ELSE WithMarkersBetween(refs, n - 1)
             \o (IF n > 1 THEN <<pageBreakMarker>> ELSE <<>>) \o refs[n]

\* C23: every handleInput cancels the pending timer, so at most one persist
\* timer is pending; the debounced onContentChange fires only when 500 ms
\* have passed since the last handleInput, at most once per burst, with the
\* content of all pages joined by the page-break marker.
C23_Debounce ==
    /\ Cardinality(timers) <= 1
    /\ \A t \in timers : t.id = Len(inputs) /\ t.id = debounceRef
    /\ \A i \in 1..Len(saves) :
          /\ saves[i].timer = saves[i].seen
          /\ saves[i].at >= inputs[saves[i].seen].at + 500
          /\ saves[i].fullHtml =
                 WithMarkersBetween(saves[i].shown, Len(saves[i].shown))
          /\ \A j \in 1..Len(saves) : i # j => saves[i].timer # saves[j].timer

\* a burst of two inputs less than 500 ms apart on a two-page document, and
\* one save after it
C23_Witness ==
    /\ Len(inputs) = 2
    /\ inputs[2].at - inputs[1].at < 500
    /\ inputs[2].at > inputs[1].at
    /\ Len(saves) = 1
    /\ Len(saves[1].shown) = 2
    /\ timers = {}

(***************************************************************************)
(* pdfService: loadPdfDocument and the module's textMap.  A call is a      *)
(* process that yields at its awaits; the calls of one session interleave  *)
(* there.  The n-th call is given a file of numPages pages; an item is     *)
(* tagged with the call whose file it was read from.                       *)
(***************************************************************************)
\* pageItems of page i (0-based) of the file given to call n
PageItems(n, i) == <<[load |-> n, pageIndex |-> i]>>

\* textMap.set(key, value)
MapSet(map, key, value) ==
    [k \in (DOMAIN map) \cup {key} |-> IF k = key THEN value ELSE map[k]]

\* loadPdfDocument(file) runs to its first await: file.arrayBuffer(), then
\* getDocument(...).promise
LoadStarts(numPages) ==
    /\ Len(loads) < MaxLoads
    /\ loads' = Append(loads, [numPages |-> numPages, pc |-> "open", i |-> 1])
    /\ UNCHANGED textMap

\* the document is open: textMap.clear(), and the loop awaits getPage(1) and
\* its getTextContent()
LoadOpens(n) ==
    /\ loads[n].pc = "open"
    /\ textMap' = <<>>
    /\ loads' = [loads EXCEPT ![n].pc = "page"]

\* the text content of page i is there: textMap.set(i - 1, pageItems), then
\* the next page is awaited or the call returns
LoadReadsPage(n) ==
    /\ loads[n].pc = "page"
    /\ LET i == loads[n].i
       IN /\ textMap' = MapSet(textMap, i - 1, PageItems(n, i - 1))
          /\ loads' = [loads EXCEPT
                 ![n].i = i + 1,
                 ![n].pc = IF i + 1 <= loads[n].numPages THEN "page"
                           ELSE "returned"]

\* an await rejects: the catch block throws "Failed to parse PDF."
LoadFails(n) ==
    /\ loads[n].pc \in {"open", "page"}
    /\ loads' = [loads EXCEPT ![n].pc = "thrown"]
    /\ UNCHANGED textMap

(***************************************************************************)
(* SpecLoad: the loadPdfDocument calls of one session.                     *)
(***************************************************************************)
InitLoad ==
    /\ ServiceStart /\ AppStart /\ ChatStart /\ EditorStart /\ LoaderStart
    /\ trial = NoTrial

LoadCalled ==
    /\ \E numPages \in 1..MaxPdfPages : LoadStarts(numPages)
    /\ UNCHANGED <<serviceVars, appVars, chatVars, editorVars, trial>>

LoadOpened ==
    /\ \E n \in 1..Len(loads) : LoadOpens(n)
    /\ UNCHANGED <<serviceVars, appVars, chatVars, editorVars, trial>>

LoadPageRead ==
    /\ \E n \in 1..Len(loads) : LoadReadsPage(n)
    /\ UNCHANGED <<serviceVars, appVars, chatVars, editorVars, trial>>

LoadFailed ==
    /\ \E n \in 1..Len(loads) : LoadFails(n)
    /\ UNCHANGED <<serviceVars, appVars, chatVars, editorVars, trial>>

NextLoad ==
    \/ LoadCalled
    \/ LoadOpened
    \/ LoadPageRead
    \/ LoadFailed

SpecLoad == InitLoad /\ [][NextLoad]_vars

AllLoadsCompleted ==
    /\ loads # <<>>
    /\ \A n \in 1..Len(loads) : loads[n].pc \in {"returned", "thrown"}

\* C25: once every loadPdfDocument call has completed, textMap holds no item
\* of a file other than the one given to the most recently started call, and
\* when that call returned it holds one entry per page of its file.
C25_TokenMapLifetime ==
    AllLoadsCompleted =>
        LET last == Len(loads)
        IN /\ \A p \in DOMAIN textMap : textMap[p] = PageItems(last, p)
           /\ loads[last].pc = "returned" =>
                  DOMAIN textMap = 0..(loads[last].numPages - 1)

(***************************************************************************)
(* SpecHistory: App's document state under updates, undos and redos.  An   *)
(* update is a call of handleUpdateDocument, by the editor's               *)
(* onContentChange or the chat's onUpdateDocument.  trial records the      *)
(* last call made.  Two contents are written at any time; a third one only *)
(* while the history holds at most MaxVaried entries.                      *)
(***************************************************************************)
LoadedDoc == <<Node("p", 1, 40, FALSE, "none", <<>>)>>

EditedDocs ==
    { LoadedDoc,
      <<Node("p", 2, 40, FALSE, "none", <<>>)>>,
      <<Node("p", 3, 40, FALSE, "none", <<>>)>> }

ThirdDoc == <<Node("p", 3, 40, FALSE, "none", <<>>)>>

InitHistory ==
    /\ ServiceStart /\ ChatStart /\ EditorStart /\ LoaderStart
    /\ Loaded(LoadedDoc)
    /\ trial = [pc |-> "load", newHtml |-> LoadedDoc]

HistoryUpdate ==
    /\ \E newHtml \in EditedDocs :
          /\ newHtml = ThirdDoc => Len(history) <= MaxVaried
          /\ handleUpdateDocument(newHtml)
          /\ trial' = [pc |-> "update", newHtml |-> newHtml]
    /\ UNCHANGED <<serviceVars, chatVars, editorVars, loaderVars>>

HistoryUndo ==
    /\ handleUndo
    /\ trial' = [pc |-> "undo", newHtml |-> <<>>]
    /\ UNCHANGED <<serviceVars, chatVars, editorVars, loaderVars>>

HistoryRedo ==
    /\ handleRedo
    /\ trial' = [pc |-> "redo", newHtml |-> <<>>]
    /\ UNCHANGED <<serviceVars, chatVars, editorVars, loaderVars>>

NextHistory ==
    \/ HistoryUpdate
    \/ HistoryUndo
    \/ HistoryRedo

SpecHistory == InitHistory /\ [][NextHistory]_vars

\* this step is a call handleUpdateDocument(newHtml)
Updates(newHtml) == trial'.pc = "update" /\ trial'.newHtml = newHtml

\* C26: every call of handleUpdateDocument whose content differs from the
\* latest history entry (the last one, and the one the index points at)
\* leaves that content as the last history entry, with the index on it.
C26_EveryEditRecorded ==
    [][\A newHtml \in EditedDocs :
          (/\ Updates(newHtml)
           /\ history[Len(history)] # newHtml
           /\ history[historyIndex + 1] # newHtml)
          => /\ history'[Len(history')] = newHtml
             /\ historyIndex' = Len(history') - 1]_vars

\* C27: a call of handleUpdateDocument made while the index is not at the
\* last entry removes the entries after the index before it appends, so
\* afterwards the index is at the last entry (a redo changes nothing) and
\* no removed entry is left.
C27_EditInvalidatesRedo ==
    [][\A newHtml \in EditedDocs :
          (Updates(newHtml) /\ historyIndex < Len(history) - 1)
          => /\ historyIndex' = Len(history') - 1
             /\ history' \in { SubSeq(history, 1, historyIndex + 1),
                               Append(SubSeq(history, 1, historyIndex + 1),
                                      newHtml) }]_vars

HistoryShape ==
    /\ Len(history) \in 1..MAX_HISTORY
    /\ historyIndex \in 0..(Len(history) - 1)

\* C28: the history holds 1 to 50 entries and the index points into it; a
\* push onto 50 entries drops the oldest; undo at index 0 and redo at the
\* last index change nothing; after an update that changed the history its
\* last two entries differ.
C28_HistoryBounds ==
    /\ []HistoryShape
    /\ [][/\ (trial'.pc = "undo" /\ historyIndex = 0) => UNCHANGED appVars
          /\ (trial'.pc = "redo" /\ historyIndex = Len(history) - 1)
                 => UNCHANGED appVars
          /\ (trial'.pc = "update" /\ history' # history /\ Len(history') >= 2)
                 => history'[Len(history')] # history'[Len(history') - 1]
          /\ (trial'.pc = "update" /\ Len(history) = MAX_HISTORY
                  /\ historyIndex = MAX_HISTORY - 1 /\ history' # history)
                 => history' = Append(Tail(history), trial'.newHtml)]_vars

\* the oldest entry has been dropped, and undo has come down to index 0
C28_Witness ==
    /\ Len(history) = MAX_HISTORY
    /\ history[1] # LoadedDoc
    /\ trial.pc = "undo"
    /\ historyIndex = 0
    /\ htmlContent = history[1]


(***************************************************************************)
(* SpecDesk: the chat surface and the editor on one loaded document, as    *)
(* App renders them side by side.                                          *)
(***************************************************************************)
InitDesk ==
    /\ ServiceStart /\ ChatStart /\ LoaderStart
    /\ \E html \in ChatDocs : Loaded(html) /\ EditorShows(html)
    /\ trial = NoTrial

\* the continuation of handleSendMessage runs as soon as the service call has
\* settled, before the clock moves or another event's handler runs
ChatRunsOn == calls[Chat].pc = "settled"

DeskTick == ~ChatRunsOn /\ ChatTick

DeskInput == ~ChatRunsOn /\ EditorInput

DeskPersists == ~ChatRunsOn /\ EditorPersists

NextDesk ==
    \/ DeskTick
    \/ handleSendMessage
    \/ ChatTimerFires
    \/ ChatResponds
    \/ ChatAppliesUpdate
    \/ ChatShowsMessage
    \/ ChatShowsError
    \/ DeskInput
    \/ DeskPersists

SpecDesk == InitDesk /\ [][NextDesk]_vars

\* C29: when the chat applies an update, the document the request was made
\* from is still the current one: no content handed over by the editor while
\* the request was in flight is replaced by the request's result.
C29_NoLostUpdate ==
    [][(/\ calls[Chat].pc = "settled"
        /\ calls[Chat].result.type = "update"
        /\ calls'[Chat].pc = "idle")
       => calls[Chat].currentHtml = htmlContent]_vars


(***************************************************************************)
(* SpecSend: the chat surface and its invocations of handleSendMessage.    *)
(* Each member of Callers stands for one invocation, so that two requests  *)
(* of the chat surface can be told apart.  The continuation after the      *)
(* await always runs once the service call has settled; nothing is assumed *)
(* about the network or the clock.                                         *)
(***************************************************************************)
InitSend ==
    /\ ServiceStart /\ ChatStart /\ LoaderStart
    /\ \E html \in ChatDocs : Loaded(html) /\ EditorShows(html)
    /\ trial = NoTrial

SendTick ==
    /\ Tick(2 * QuarterInterval)
    /\ UNCHANGED <<appVars, chatVars, editorVars, loaderVars, trial>>

SendCalled ==
    /\ \E p \in Callers : SendsAs(p)
    /\ UNCHANGED <<appVars, editorVars, loaderVars, trial>>

SendTimerFires ==
    /\ \E p \in Callers : TimerFires(p)
    /\ UNCHANGED <<appVars, chatVars, editorVars, loaderVars, trial>>

SendResponds ==
    /\ \E p \in Callers :
          /\ calls[p].pc = "fetch"
          /\ \E resp \in ChatResponses(calls[p].currentHtml) : Responds(p, resp)
    /\ UNCHANGED <<appVars, chatVars, editorVars, loaderVars, trial>>

SendAppliesUpdate ==
    /\ \E p \in Callers : AppliesUpdateAs(p)
    /\ UNCHANGED <<loaderVars, trial>>

SendShowsMessage ==
    /\ \E p \in Callers : ShowsMessageAs(p)
    /\ UNCHANGED <<loaderVars, trial>>

SendShowsError ==
    /\ \E p \in Callers : ShowsErrorAs(p)
    /\ UNCHANGED <<loaderVars, trial>>

NextSend ==
    \/ SendTick
    \/ SendCalled
    \/ SendTimerFires
    \/ SendResponds
    \/ SendAppliesUpdate
    \/ SendShowsMessage
    \/ SendShowsError

SpecSend == InitSend /\ [][NextSend]_vars

SpecSendFair ==
    /\ SpecSend
    /\ WF_vars(SendAppliesUpdate)
    /\ WF_vars(SendShowsMessage)
    /\ WF_vars(SendShowsError)

\* the invocations whose request has not been handled to its end
Outstanding == { p \in Callers : calls[p].pc # "idle" }

\* C30: at most one request of the chat surface is outstanding; while
\* isTyping is true no invocation starts a request; and once a request has
\* ended, with an update, a message or a thrown error, isTyping becomes false.
C30_SingleRequest ==
    /\ [](Cardinality(Outstanding) <= 1)
    /\ [][isTyping => (Outstanding' \subseteq Outstanding
                         /\ Len(dispatches') <= Len(dispatches) + 1
                         /\ (Len(dispatches') > Len(dispatches)
                                => \E q \in Outstanding : calls[q].pc = "wait"))]_vars
    /\ \A p \in Callers : \A type \in {"update", "message", "throw"} :
          (calls[p].pc = "settled" /\ calls[p].result.type = type)
              ~> ~isTyping

\* one request ended with an update and one with a thrown error, and
\* isTyping is false again
C30_Witness ==
    /\ ~isTyping
    /\ Outstanding = {}
    /\ Len(dispatches) >= 2
    /\ \E i \in 1..Len(messages) : messages[i] = "done"
    /\ \E i \in 1..Len(messages) : messages[i] = "error"


====
